---- MODULE Spec2Model ----
(***************************************************************************)
(* A model of the geodetic coordinate engine of GpxSonar (class CLatLon,   *)
(* src/unnamed/part_000).                                                  *)
(*                                                                         *)
(* Representation.  A C++ double holding degrees is modelled by an integer *)
(* number of micro-degrees (MicroDeg units per degree); a zone letter is   *)
(* modelled by its ASCII code.  The receiver object of every method is the *)
(* pair (m_Latitude, m_Longitude).  op names the method that ran last,     *)
(* args the arguments it was called with and ret what it returned.  frame  *)
(* holds the local variables and the position of a call that runs a loop   *)
(* (FromCartesian), one pass of the loop being one step.                    *)
(*                                                                         *)
(* Radians and dimensionless doubles are modelled in millionths as well    *)
(* (Micro units per unit), metres by whole metres.  All arithmetic stays   *)
(* within the 32-bit integers of the model checker: a product of two       *)
(* fixed-point numbers is formed by MulDiv, which never builds the double  *)
(* width intermediate.                                                     *)
(***************************************************************************)
EXTENDS Integers, Sequences, FiniteSets, TLC

VARIABLES m_Latitude, m_Longitude, op, args, ret, frame

vars == <<m_Latitude, m_Longitude, op, args, ret, frame>>

---------------------------------------------------------------------------
(* Units and the input grid.                                               *)

\* Units per unit of a fixed-point number: the resolution at which doubles
\* are modelled.
Micro == 1000 * 1000

\* Micro-degrees per degree.
MicroDeg == Micro

\* The literal d. (degrees) of the source, in model units.
Deg(d) == d * MicroDeg

\* Grid points per degree from which input coordinates are drawn.
GridPerDeg == 2

\* Largest latitude and longitude magnitude (degrees) of an input point.
MaxLat == 90
MaxLon == 186

GridStep == MicroDeg \div GridPerDeg

LatGrid == { k * GridStep : k \in (-MaxLat * GridPerDeg)..(MaxLat * GridPerDeg) }
LonGrid == { k * GridStep : k \in (-MaxLon * GridPerDeg)..(MaxLon * GridPerDeg) }

---------------------------------------------------------------------------
(* C++ integer arithmetic.                                                 *)

\* The % operator of C++ on int: the remainder has the sign of the dividend.
CRem(a, b) == IF a >= 0 THEN a % b ELSE -((-a) % b)

\* Conversion of the double n/d (d > 0) to int: truncation toward zero.
CTruncDiv(n, d) == IF n >= 0 THEN n \div d ELSE -((-n) \div d)

\* floor() of a double holding degrees, as a whole number of degrees.
FloorDeg(x) == x \div MicroDeg

---------------------------------------------------------------------------
(* Fixed-point arithmetic standing for the double arithmetic and the libm   *)
(* calls of the source.                                                    *)

Abs(a) == IF a < 0 THEN -a ELSE a
Sgn(a) == IF a < 0 THEN -1 ELSE 1
Min(a, b) == IF a < b THEN a ELSE b

\* The arithmetic is written as functions where a value is used more than
\* once, so that an argument is evaluated once, as a double is computed once.

\* <<quotient, remainder>> of r0 * b by c from the pair p of r0 * (b / 16)
\* by c and the last hexadecimal digit d of b.
UMulDivDigit[p \in Nat \X Nat, r0 \in Nat, d \in Nat, c \in Nat] ==
    LET t == p[2] * 16 + r0 * d
    IN  <<p[1] * 16 + t \div c, t % c>>

\* <<quotient, remainder>> of r0 * b by c, for 0 <= r0 < c, taking b one
\* hexadecimal digit at a time.
RECURSIVE UMulDivPair(_, _, _)
UMulDivPair(r0, b, c) ==
    IF b = 0 THEN <<0, 0>>
    ELSE UMulDivDigit[UMulDivPair(r0, b \div 16, c), r0, b % 16, c]

\* a * b / c rounded to nearest from the pair p of (a % c) * b by c.
UMulDivRound[p \in Nat \X Nat, a \in Nat, b \in Nat, c \in Nat] ==
    (a \div c) * b + p[1] + (IF 2 * p[2] >= c THEN 1 ELSE 0)

\* a * b / c rounded to nearest, for a, b >= 0 and c > 0.
UMulDiv(a, b, c) == UMulDivRound[UMulDivPair(a % c, b, c), a, b, c]

\* a * b / c rounded to nearest, c # 0.
MulDivSigned[a \in Int, b \in Int, c \in Int] ==
    Sgn(a) * Sgn(b) * Sgn(c) * UMulDiv(Abs(a), Abs(b), Abs(c))

MulDiv(a, b, c) == MulDivSigned[a, b, c]

\* The product and the quotient of two fixed-point numbers.
Mul(a, b) == MulDiv(a, b, Micro)
Div(a, b) == MulDiv(a, Micro, b)

\* sqrt(): Newton's iteration downward from a start above the root.
SqrtStep[v \in Nat, y \in Nat, ny \in Nat] ==
    IF ny >= y THEN y ELSE SqrtStep[v, ny, (ny + UMulDiv(v, Micro, ny)) \div 2]

SqrtNewton[v \in Nat, y \in Nat] ==
    SqrtStep[v, y, (y + UMulDiv(v, Micro, y)) \div 2]

SqrtValue[v \in Nat] ==
    IF v = 0 THEN 0
    ELSE SqrtNewton[v, IF v <= Micro THEN Micro ELSE Min(v, 46341 * 1000)]

Sqrt(v) == SqrtValue[v]

\* #define PI 3.14159265358979
PI == 3141593
HalfPi == PI \div 2

\* sin() on [-pi/2, pi/2]: the Taylor polynomial up to the 13th power.
SinSmall[v \in Int] ==
    LET x2 == Mul(v, v)
        p6 == Micro - x2 \div 156
        p5 == Micro - Mul(x2, p6) \div 110
        p4 == Micro - Mul(x2, p5) \div 72
        p3 == Micro - Mul(x2, p4) \div 42
        p2 == Micro - Mul(x2, p3) \div 20
        p1 == Micro - Mul(x2, p2) \div 6
    IN  Mul(v, p1)

\* sin(), after reduction of the argument to [-pi/2, pi/2].
SinValue[v \in Int] ==
    LET r0 == v % (2 * PI)
        r1 == IF r0 > PI THEN r0 - 2 * PI ELSE r0
        r2 == IF r1 > HalfPi THEN PI - r1
              ELSE IF r1 < -HalfPi THEN -PI - r1 ELSE r1
    IN  SinSmall[r2]

Sin(v) == SinValue[v]

\* cos()
Cos(v) == Sin(v + HalfPi)

\* tan()
Tan(v) == Div(Sin(v), Cos(v))

\* const double CLatLon::m_Deg2Rad = 1.74532925199433E-02, in units of 1e-7
m_Deg2Rad == 174533

\* x * m_Deg2Rad and x / m_Deg2Rad
DegToRad(x) == MulDiv(x, m_Deg2Rad, 10 * Micro)
RadToDeg(x) == MulDiv(x, 10 * Micro, m_Deg2Rad)

\* fmod(): the result has the sign of the dividend.
Fmod(a, b) == IF a >= 0 THEN a % b ELSE -((-a) % b)

Max(a, b) == IF a < b THEN b ELSE a

\* atan() on [-tan(pi/8), tan(pi/8)]: the Taylor polynomial up to the 15th
\* power.
AtanSmall[v \in Int] ==
    LET x2 == Mul(v, v)
        p13 == (Micro \div 13) - Mul(x2, Micro \div 15)
        p11 == (Micro \div 11) - Mul(x2, p13)
        p9 == (Micro \div 9) - Mul(x2, p11)
        p7 == (Micro \div 7) - Mul(x2, p9)
        p5 == (Micro \div 5) - Mul(x2, p7)
        p3 == (Micro \div 3) - Mul(x2, p5)
        p1 == Micro - Mul(x2, p3)
    IN  Mul(v, p1)

\* tan(pi/8)
TanPiOver8 == 414214

\* atan(), after reduction of the argument to [-tan(pi/8), tan(pi/8)].
AtanValue[v \in Int] ==
    IF v < 0 THEN -AtanValue[-v]
    ELSE IF v > Micro THEN HalfPi - AtanValue[Div(Micro, v)]
    ELSE IF v > TanPiOver8
         THEN (PI \div 4) + AtanSmall[Div(v - Micro, v + Micro)]
         ELSE AtanSmall[v]

Atan(v) == AtanValue[v]

\* atan2(y, x) of two lengths in metres; atan2(0, 0) is 0.
Atan2(y, x) ==
    IF x = 0 /\ y = 0 THEN 0
    ELSE IF Abs(y) <= Abs(x)
         THEN IF x > 0 THEN Atan(MulDiv(y, Micro, x))
              ELSE IF y >= 0 THEN Atan(MulDiv(y, Micro, x)) + PI
                   ELSE Atan(MulDiv(y, Micro, x)) - PI
         ELSE Sgn(y) * HalfPi - Atan(MulDiv(x, Micro, y))

\* sqrt(x*x + y*y) of two lengths in metres.  q is min/max of |x| and |y|.
HypotScaled(m, q) == MulDiv(m, Sqrt(Micro + Mul(q, q)), Micro)

Hypot(x, y) ==
    IF x = 0 /\ y = 0 THEN 0
    ELSE HypotScaled(Max(Abs(x), Abs(y)),
                     Div(Min(Abs(x), Abs(y)), Max(Abs(x), Abs(y))))

---------------------------------------------------------------------------
(* Doubles that may be infinite or NaN (the locals of FromCartesian and the  *)
(* coordinates it assigns): a record of the class and, for a finite double, *)
(* the fixed-point value; for an infinity v is its sign.                    *)

Num(v) == [cls |-> "finite", v |-> v]
PosInf == [cls |-> "inf", v |-> 1]
NegInf == [cls |-> "inf", v |-> -1]
NaN == [cls |-> "nan", v |-> 0]

IsFinite(d) == d.cls = "finite"
IsNaN(d) == d.cls = "nan"

\* n / d for two finite doubles holding metres (d = 0 is +0): 0/0 is NaN and
\* n/0 an infinity of the sign of n.
DDiv(n, d) ==
    IF d = 0
    THEN IF n = 0 THEN NaN ELSE IF n > 0 THEN PosInf ELSE NegInf
    ELSE Num(MulDiv(n, Micro, d))

\* The locals of a call that runs a loop, and the position of the call:
\* "idle" (no call yet), "loop" (about to run a pass of the loop), "exit"
\* (the loop was left) and "done" (the call has returned).
IdleFrame ==
    [pc |-> "idle", p |-> 0, dTmp |-> Num(0), dLast |-> Num(0),
     iterations |-> 0]

---------------------------------------------------------------------------
(* UTM zone number and zone letter.                                        *)

\* const std::string CLatLon::m_strZoneLetters = "CDEFGHJKLMNPQRSTUVWX"
m_strZoneLetters == <<67, 68, 69, 70, 71, 72, 74, 75, 76, 77,
                      78, 80, 81, 82, 83, 84, 85, 86, 87, 88>>

\* PlainZone with the "+ 1" forgotten (zones numbered from 0).
PlainZone_ZeroBased(lon) == CRem((lon + Deg(180)) \div Deg(6), 60)

\* int iZone = ((int) floor((m_Longitude + 180.)/6.)) % 60 + 1;
PlainZone(lon) == CRem((lon + Deg(180)) \div Deg(6), 60) + 1

\* InNorwayBox with the western edge taken as inclusive (>= 3 for > 3).
InNorwayBox_WestInclusive(lat, lon) ==
    /\ lat > Deg(56) /\ lat <= Deg(64)
    /\ lon >= Deg(3) /\ lon <= Deg(12)

\* The Norway test of GetZone.
InNorwayBox(lat, lon) ==
    /\ lat > Deg(56) /\ lat <= Deg(64)
    /\ lon > Deg(3)  /\ lon <= Deg(12)

\* The latitude test that opens the Svalbard chain of GetZone.
InSvalbardBand(lat) == lat > Deg(72) /\ lat < Deg(84)

\* SvalbardZone with the 9-degree limit of the first band written as 6.
SvalbardZone_NarrowFirstBand(lon, iZone) ==
    IF lon >= Deg(0) /\ lon < Deg(6) THEN 31
    ELSE IF lon >= Deg(9) /\ lon < Deg(21) THEN 33
    ELSE IF lon >= Deg(21) /\ lon < Deg(33) THEN 35
    ELSE IF lon >= Deg(33) /\ lon < Deg(42) THEN 37
    ELSE iZone

\* The if / else-if chain over the Svalbard longitudes.
SvalbardZone(lon, iZone) ==
    IF lon >= Deg(0) /\ lon < Deg(9) THEN 31
    ELSE IF lon >= Deg(9) /\ lon < Deg(21) THEN 33
    ELSE IF lon >= Deg(21) /\ lon < Deg(33) THEN 35
    ELSE IF lon >= Deg(33) /\ lon < Deg(42) THEN 37
    ELSE iZone

\* int CLatLon::GetZone(void)
GetZone(lat, lon) ==
    LET z0 == PlainZone(lon)
        z1 == IF InNorwayBox(lat, lon) THEN 32 ELSE z0
    IN  IF InSvalbardBand(lat) THEN SvalbardZone(lon, z1) ELSE z1

\* ZoneLetterIndex rounding to the nearest band instead of truncating.
ZoneLetterIndex_Rounded(lat) == CTruncDiv(FloorDeg(lat + Deg(80)) + 4, 8)

\* int iZoneLetter = floor(m_Latitude + 80.)/8;
ZoneLetterIndex(lat) == CTruncDiv(FloorDeg(lat + Deg(80)), 8)

\* InXBand stopping at 80 degrees, where the 8-degree band X would end.
InXBand_EightDegrees(lat) == lat >= Deg(72) /\ lat < Deg(80)

\* The test that forces the letter 'X'.
InXBand(lat) == lat >= Deg(72) /\ lat <= Deg(84)

\* char CLatLon::GetZoneLetter(void)
GetZoneLetter(lat) ==
    IF InXBand(lat) THEN 88
    ELSE LET i == ZoneLetterIndex(lat)
         IN  IF i >= 0 /\ i < Len(m_strZoneLetters)
             THEN m_strZoneLetters[i + 1]
             ELSE 90

\* double dCentralLongitude = ((iZone - 1) * 6. - 180. + 3.) * m_Deg2Rad;
\* the central meridian of a zone, in model degrees (before the factor
\* m_Deg2Rad); ToUTM and ConvertUTM compute it alike.
CentralLongitudeDeg(iZone) == Deg((iZone - 1) * 6 - 180 + 3)

---------------------------------------------------------------------------
(* The WGS84 ellipsoid and the transverse Mercator series.                 *)

\* const CEllipsoid CLatLon::m_Ellipsoid = CEllipsoid(6378137.00, 298.257223563)
\* m_a in metres, m_fInv in thousandths.
m_a == 6378137
m_fInv == 298257

\* double flat = 1./m_Ellipsoid.m_fInv;
flat == MulDiv(Micro, 1000, m_fInv)

\* double ecc2 = 2. * flat - flat * flat;
ecc2 == (2 * flat) - Mul(flat, flat)

\* double ecc12 = (ecc2)/(1. - ecc2);
ecc12 == Div(ecc2, Micro - ecc2)

\* const double k0 = 0.9996;
k0 == 999600

\* const double dEastingOffset = 5.e5;  (ToUTM and ConvertUTM alike)
dEastingOffset == 500000

\* const double dNorthingOffsetSouth = 1.e7;  in ToUTM
ToUTM_dNorthingOffsetSouth == 10000000

\* const double dNorthingOffsetSouth = 1.e6;  in ConvertUTM
ConvertUTM_dNorthingOffsetSouth == 1000000

ecc2_2 == Mul(ecc2, ecc2)
ecc2_3 == Mul(ecc2_2, ecc2)

\* (1. - ecc2/4. - 3.*ecc2*ecc2/64. - 5.*ecc2*ecc2*ecc2/256.)
MeridianFactor ==
    Micro - (ecc2 \div 4) - ((3 * ecc2_2) \div 64) - ((5 * ecc2_3) \div 256)

\* A fixed-point number in thousandths: the coefficients of the highest
\* terms of the series, which hold tan^4, are formed at this coarser scale.
Milli(v) == v \div 1000

\* The computation of ToUTM and of ConvertUTM is written as a chain of
\* operators, one per group of local variables of the source, each taking
\* the locals already computed as parameters.

\* ToUTM from the powers of A on: the easting and the northing.
ToUTM_Sum(lat, iZone, tanLat, N, T, C, A, M, A2, A3, A4) ==
    LET A5 == Mul(A4, A)
        A6 == Mul(A4, A2)
        T2m == MulDiv(Milli(T), Milli(T), 1000)
        cE5 == 5000 - (18 * Milli(T)) + T2m + (72 * Milli(C))
                  - (58 * Milli(ecc12))
        cN6 == 61000 - (58 * Milli(T)) + T2m + (600 * Milli(C))
                  - (330 * Milli(ecc12))
        dUTMEasting ==
            MulDiv(MulDiv(N, k0, Micro),
                   A + (Mul(Micro - T + C, A3) \div 6)
                     + (MulDiv(cE5, A5, 1000) \div 120),
                   Micro) + dEastingOffset
        dUTMNorthing0 ==
            MulDiv(k0,
                   M + MulDiv(MulDiv(N, tanLat, Micro),
                              (A2 \div 2)
                              + (Mul((5 * Micro) - T + (9 * C)
                                       + (4 * Mul(C, C)), A4) \div 24)
                              + (MulDiv(cN6, A6, 1000) \div 720),
                              Micro),
                   Micro)
        dUTMNorthing == IF lat < 0
                        THEN dUTMNorthing0 + ToUTM_dNorthingOffsetSouth
                        ELSE dUTMNorthing0
    IN  <<iZone, GetZoneLetter(lat), dUTMEasting, dUTMNorthing>>

\* ToUTM from N, T, C, A and M on: the powers of A.
ToUTM_Powers(lat, iZone, tanLat, N, T, C, A, M, A2) ==
    ToUTM_Sum(lat, iZone, tanLat, N, T, C, A, M, A2, Mul(A2, A), Mul(A2, A2))

\* ToUTM from the sine and cosine of the latitude on: N, T, C, A and M.
ToUTM_Terms(lat, iZone, dLatitude, dDeltaLongitude, sinLat, cosLat, tanLat, A) ==
    ToUTM_Powers(lat, iZone, tanLat,
        MulDiv(m_a, Micro, Sqrt(Micro - Mul(ecc2, Mul(sinLat, sinLat)))),
        Mul(tanLat, tanLat),
        Mul(ecc12, Mul(cosLat, cosLat)),
        A,
        MulDiv(m_a,
               Mul(MeridianFactor, dLatitude)
               - Mul(((3 * ecc2) \div 8) + ((3 * ecc2_2) \div 32)
                       + ((45 * ecc2_3) \div 1024), Sin(2 * dLatitude))
               + Mul(((15 * ecc2_2) \div 256) + ((45 * ecc2_3) \div 1024),
                     Sin(4 * dLatitude))
               - Mul((35 * ecc2_3) \div 3072, Sin(6 * dLatitude)),
               Micro),
        Mul(A, A))

\* ToUTM from the angles in radians on: sin, cos and tan of the latitude,
\* and A = cos(dLatitude) * (dLongitude - dCentralLongitude).
ToUTM_Trig(lat, iZone, dLatitude, dDeltaLongitude, sinLat, cosLat) ==
    ToUTM_Terms(lat, iZone, dLatitude, dDeltaLongitude, sinLat, cosLat,
                Div(sinLat, cosLat), Mul(cosLat, dDeltaLongitude))

\* ToUTM from the zone number on: dLatitude and
\* dLongitude - dCentralLongitude, in radians.
ToUTM_Radians(lat, iZone, dLatitude, dDeltaLongitude) ==
    ToUTM_Trig(lat, iZone, dLatitude, dDeltaLongitude,
               Sin(dLatitude), Cos(dLatitude))

\* std::string CLatLon::ToUTM(void): <<iZone, cZoneLetter, dUTMEasting,
\* dUTMNorthing>>, the four fields of the string it returns.
ToUTM_Zone(lat, lon, iZone) ==
    ToUTM_Radians(lat, iZone, DegToRad(lat),
        DegToRad(Fmod(lon + Deg(180), Deg(360)) - Deg(180))
        - DegToRad(CentralLongitudeDeg(iZone)))

ToUTM(lat, lon) == ToUTM_Zone(lat, lon, GetZone(lat, lon))

\* toupper(), C locale
ToUpper(c) == IF c >= 97 /\ c <= 122 THEN c - 32 ELSE c

\* ZoneLetterFound without the toupper() call: lower case is not found.
ZoneLetterFound_CaseSensitive(cZoneLetter) ==
    \E i \in 1..Len(m_strZoneLetters) : m_strZoneLetters[i] = cZoneLetter

\* cZoneLetter = toupper(cZoneLetter);
\* m_strZoneLetters.find(cZoneLetter) != std::string::npos
ZoneLetterFound(cZoneLetter) ==
    \E i \in 1..Len(m_strZoneLetters) :
        m_strZoneLetters[i] = ToUpper(cZoneLetter)

\* IsSouthLetter with <= for <: 'N' itself is taken as southern.
IsSouthLetter_Inclusive(cZoneLetter) == (ToUpper(cZoneLetter) - 78) <= 0

\* if ((cZoneLetter - 'N') < 0)
IsSouthLetter(cZoneLetter) == (ToUpper(cZoneLetter) - 78) < 0

\* ConvertUTM from the powers of D on: the latitude and the longitude, in
\* degrees, that it assigns.
ConvertUTM_Sum(iZone, phi1, cosPhi, tanPhi, N1, T1, C1, R1, D, D2, D3, D4) ==
    LET dCentralLongitude == DegToRad(CentralLongitudeDeg(iZone))
        D5 == Mul(D4, D)
        D6 == Mul(D4, D2)
        T1sqm == MulDiv(Milli(T1), Milli(T1), 1000)
        C1sqm == MulDiv(Milli(C1), Milli(C1), 1000)
        c4 == (5 * Micro) + (3 * T1) + (10 * C1) - (4 * Mul(C1, C1))
                 - (9 * ecc12)
        c6 == 61000 + (90 * Milli(T1)) + (298 * Milli(C1)) + (45 * T1sqm)
                 - (252 * Milli(ecc12)) - (3 * C1sqm)
        c5 == 5000 - (2 * Milli(C1)) + (28 * Milli(T1)) - (3 * C1sqm)
                 + (8 * Milli(ecc12)) + (24 * T1sqm)
        dLatitude ==
            phi1 - Mul(MulDiv(N1, tanPhi, R1),
                       (D2 \div 2) - (Mul(c4, D4) \div 24)
                         + (MulDiv(c6, D6, 1000) \div 720))
        dLongitude ==
            Div(D - (Mul(Micro + (2 * T1) + C1, D3) \div 6)
                  + (MulDiv(c5, D5, 1000) \div 120),
                cosPhi)
    IN  <<RadToDeg(dLatitude), RadToDeg(dCentralLongitude + dLongitude)>>

\* ConvertUTM from D on: the powers of D.
ConvertUTM_Powers(iZone, phi1, cosPhi, tanPhi, N1, T1, C1, R1, D, D2) ==
    ConvertUTM_Sum(iZone, phi1, cosPhi, tanPhi, N1, T1, C1, R1,
                   D, D2, Mul(D2, D), Mul(D2, D2))

\* ConvertUTM from N1, T1, C1 and R1 on: D = x/(N1*k0).
ConvertUTM_D(iZone, x, phi1, cosPhi, tanPhi, N1, T1, C1, R1, D) ==
    ConvertUTM_Powers(iZone, phi1, cosPhi, tanPhi, N1, T1, C1, R1,
                      D, Mul(D, D))

\* ConvertUTM from the trigonometry of phi1 on: N1, T1, C1, R1.
\* w is 1 - ecc2*sin(phi1)^2 and rw its square root.
ConvertUTM_Terms(iZone, x, phi1, cosPhi, tanPhi, w, rw, N1) ==
    ConvertUTM_D(iZone, x, phi1, cosPhi, tanPhi,
        N1,
        Mul(tanPhi, tanPhi),
        Mul(ecc12, Mul(cosPhi, cosPhi)),
        MulDiv(MulDiv(m_a, Micro - ecc2, Micro), Micro, Mul(w, rw)),
        MulDiv(x, Micro, MulDiv(N1, k0, Micro)))

ConvertUTM_Radii(iZone, x, phi1, cosPhi, tanPhi, w, rw) ==
    ConvertUTM_Terms(iZone, x, phi1, cosPhi, tanPhi, w, rw,
                     MulDiv(m_a, Micro, rw))

ConvertUTM_Root(iZone, x, phi1, cosPhi, tanPhi, w) ==
    ConvertUTM_Radii(iZone, x, phi1, cosPhi, tanPhi, w, Sqrt(w))

\* ConvertUTM from phi1 on: its sine, cosine and tangent.
ConvertUTM_Trig(iZone, x, phi1, sinPhi, cosPhi) ==
    ConvertUTM_Root(iZone, x, phi1, cosPhi, Div(sinPhi, cosPhi),
                    Micro - Mul(ecc2, Mul(sinPhi, sinPhi)))

ConvertUTM_Phi1(iZone, x, phi1) ==
    ConvertUTM_Trig(iZone, x, phi1, Sin(phi1), Cos(phi1))

\* ConvertUTM from e1 and mu on: the footpoint latitude phi1.
ConvertUTM_Mu(iZone, x, e1, e1_2, mu) ==
    LET e1_3 == Mul(e1_2, e1)
        e1_4 == Mul(e1_2, e1_2)
    IN  ConvertUTM_Phi1(iZone, x,
            mu
            + Mul(((3 * e1) \div 2) - ((27 * e1_3) \div 32), Sin(2 * mu))
            + Mul(((21 * e1_2) \div 16) - ((55 * e1_4) \div 32), Sin(4 * mu))
            + Mul((151 * e1_3) \div 96, Sin(6 * mu)))

\* ConvertUTM from x and y on: e1, M = y/k0 and mu.  rt is sqrt(1 - ecc2).
ConvertUTM_E1(iZone, x, y, e1) ==
    ConvertUTM_Mu(iZone, x, e1, Mul(e1, e1),
        MulDiv(MulDiv(y, Micro, k0), Micro,
               MulDiv(m_a, MeridianFactor, Micro)))

ConvertUTM_XY(iZone, x, y, rt) ==
    ConvertUTM_E1(iZone, x, y, Div(Micro - rt, Micro + rt))

\* The part of ConvertUTM after the zone letter test: the latitude and the
\* longitude, in degrees, that it assigns.
ConvertUTM_LatLon(iZone, cZoneLetter, dEasting, dNorthing) ==
    ConvertUTM_XY(iZone,
        dEasting - dEastingOffset,
        IF IsSouthLetter(cZoneLetter)
        THEN dNorthing - ConvertUTM_dNorthingOffsetSouth
        ELSE dNorthing,
        Sqrt(Micro - ecc2))

\* bool CLatLon::ConvertUTM(int iZone, char cZoneLetter, double dEasting,
\* double dNorthing) on the point (lat, lon): the value returned and the
\* latitude and longitude the point holds afterwards.
ConvertUTM(lat, lon, iZone, cZoneLetter, dEasting, dNorthing) ==
    IF ~ZoneLetterFound(cZoneLetter)
    THEN [value |-> FALSE, lat |-> lat, lon |-> lon]
    ELSE LET ll == ConvertUTM_LatLon(iZone, cZoneLetter, dEasting, dNorthing)
         IN  [value |-> TRUE, lat |-> ll[1], lon |-> ll[2]]

---------------------------------------------------------------------------
(* Actions.                                                                *)

Init ==
    /\ m_Latitude \in LatGrid
    /\ m_Longitude \in LonGrid
    /\ op = "new"
    /\ args = <<>>
    /\ ret = 0
    /\ frame = IdleFrame

CallGetZone ==
    /\ op' = "GetZone"
    /\ args' = <<>>
    /\ ret' = GetZone(m_Latitude, m_Longitude)
    /\ UNCHANGED <<m_Latitude, m_Longitude, frame>>

CallGetZoneLetter ==
    /\ op' = "GetZoneLetter"
    /\ args' = <<>>
    /\ ret' = GetZoneLetter(m_Latitude)
    /\ UNCHANGED <<m_Latitude, m_Longitude, frame>>

Next == CallGetZone \/ CallGetZoneLetter

Spec == Init /\ [][Next]_vars

---------------------------------------------------------------------------
(* UTM conversions: SpecUTM.  A point away from the poles and from the     *)
(* zone edges is converted to UTM, and UTM references are converted back.  *)

UtmLatitudes ==
    { Deg(-60), Deg(-35), Deg(-10) - GridStep, Deg(0), Deg(10),
      Deg(35) + GridStep, Deg(60) }

UtmLongitudes ==
    { Deg(-177), Deg(-75) - GridStep, Deg(7), Deg(9), Deg(177) }

\* Zone letters passed to ConvertUTM: the 20 letters of the table, three of
\* them in lower case as well, and A B I O Y Z 0 9 a i z.
LetterInputs ==
    { m_strZoneLetters[i] : i \in 1..Len(m_strZoneLetters) }
    \cup { 99, 110, 120 }
    \cup { 65, 66, 73, 79, 89, 90, 48, 57, 97, 105, 122 }

ZoneInputs == { 31, 60 }
EastingInputs == { 250000, 700000 }
NorthingInputs == { 2000000, 6000000 }

InitUTM ==
    /\ m_Latitude \in UtmLatitudes
    /\ m_Longitude \in UtmLongitudes
    /\ op = "new"
    /\ args = <<>>
    /\ ret = 0
    /\ frame = IdleFrame

CallToUTM ==
    /\ op = "new"
    /\ op' = "ToUTM"
    /\ args' = <<>>
    /\ ret' = ToUTM(m_Latitude, m_Longitude)
    /\ UNCHANGED <<m_Latitude, m_Longitude, frame>>

\* ConvertUTM called with the arguments a.
DoConvertUTM(a) ==
    \E r \in {ConvertUTM(m_Latitude, m_Longitude, a[1], a[2], a[3], a[4])} :
        /\ op' = "ConvertUTM"
        /\ args' = a
        /\ ret' = r.value
        /\ m_Latitude' = r.lat
        /\ m_Longitude' = r.lon
        /\ UNCHANGED frame

\* ConvertUTM on any zone, letter, easting and northing.
CallConvertUTM ==
    /\ op = "new"
    /\ \E z \in ZoneInputs, c \in LetterInputs,
          e \in EastingInputs, n \in NorthingInputs :
          DoConvertUTM(<<z, c, e, n>>)

\* ConvertUTM on the reference that ToUTM has just produced.
CallConvertUTMOfToUTM ==
    /\ op = "ToUTM"
    /\ DoConvertUTM(ret)

NextUTM == CallToUTM \/ CallConvertUTM \/ CallConvertUTMOfToUTM

SpecUTM == InitUTM /\ [][NextUTM]_vars

---------------------------------------------------------------------------
(* FromCartesian: SpecIter.  The call computes p and the first dTmp, runs   *)
(* its do-while loop one pass at a step, and on leaving the loop assigns    *)
(* the latitude and the longitude.  In SpecIter m_Latitude and m_Longitude  *)
(* are doubles that may be NaN (records, see Num).  Lengths are in metres.  *)

\* #define EPSILON 5.e-14: below the resolution of the model, in whose
\* units it is 0.
EPSILON == 0

\* The number of passes of the loop is counted up to MaxIterations, one
\* more than the cap of 20 passes that a bounded loop would have.
FromCartesianCap == 20
MaxIterations == FromCartesianCap + 1

\* double r = a * ecc2;
FromCartesian_r == MulDiv(m_a, ecc2, Micro)

\* double p = sqrt(C.m_x*C.m_x + C.m_y*C.m_y);
FromCartesian_p(C) == Hypot(C[1], C[2])

\* double dTmp = C.m_z / (p * (1. - ecc2));
FromCartesian_Start(p, z) == DDiv(z, MulDiv(p, Micro - ecc2, Micro))

\* sqrt(1. + (1. - ecc2) * dTmp * dTmp) for |dTmp| = t > 1, formed as
\* t * sqrt((1. - ecc2) + u * u) with u = 1/t.
FromCartesian_BigRoot(t, u) == Mul(t, Sqrt((Micro - ecc2) + Mul(u, u)))

\* sqrt(1. + (1. - ecc2) * dTmp * dTmp) for a finite dTmp
FromCartesian_Root(dTmp) ==
    IF Abs(dTmp) <= Micro
    THEN Sqrt(Micro + Mul(Micro - ecc2, Mul(dTmp, dTmp)))
    ELSE FromCartesian_BigRoot(Abs(dTmp), Div(Micro, Abs(dTmp)))

\* dTmp = C.m_z / (p - r / sqrt(1. + (1. - ecc2) * dTmp * dTmp));
\* with dTmp infinite r/sqrt(...) is 0, with dTmp NaN the result is NaN.
FromCartesian_Body(p, z, dTmp) ==
    IF IsNaN(dTmp) THEN NaN
    ELSE IF ~IsFinite(dTmp) THEN DDiv(z, p)
    ELSE DDiv(z, p - MulDiv(FromCartesian_r, Micro,
                            FromCartesian_Root(dTmp.v)))

\* fabs(dLast - dTmp) > EPSILON: false when the difference is NaN (an
\* operand is NaN, or both are the same infinity).
StepExceedsEpsilon(dLast, dTmp) ==
    IF IsNaN(dLast) \/ IsNaN(dTmp) THEN FALSE
    ELSE IF IsFinite(dLast) /\ IsFinite(dTmp)
         THEN Abs(dLast.v - dTmp.v) > EPSILON
         ELSE ~(~IsFinite(dLast) /\ ~IsFinite(dTmp) /\ dLast.v = dTmp.v)

\* atan(dTmp) / m_Deg2Rad
FromCartesian_Latitude(dTmp) ==
    IF IsNaN(dTmp) THEN NaN
    ELSE IF IsFinite(dTmp) THEN Num(RadToDeg(Atan(dTmp.v)))
    ELSE Num(dTmp.v * RadToDeg(HalfPi))

\* atan2(C.m_y, C.m_x) / m_Deg2Rad
FromCartesian_Longitude(C) == Num(RadToDeg(Atan2(C[2], C[1])))

\* The Cartesian coordinates passed to FromCartesian: points of the polar
\* axis and the centre of the Earth (m_x = m_y = 0), points 43 km from the
\* axis, and points at a few thousand km from it.
XInputs == { 0, 43000, 3000000, 6378137 }
YInputs == { 0, 4000000 }
ZInputs == { -4000000, -1000, 0, 1000, 4000000 }

InitIter ==
    /\ m_Latitude = Num(0)
    /\ m_Longitude = Num(0)
    /\ op = "new"
    /\ args = <<>>
    /\ ret = 0
    /\ frame = IdleFrame

\* FromCartesian up to the loop, on the coordinates C.
EnterFromCartesian(C) ==
    \E p \in {FromCartesian_p(C)} :
        /\ op' = "FromCartesian"
        /\ args' = C
        /\ frame' = [pc |-> "loop", p |-> p,
                     dTmp |-> FromCartesian_Start(p, C[3]),
                     dLast |-> Num(0), iterations |-> 0]
        /\ UNCHANGED <<m_Latitude, m_Longitude, ret>>

CallFromCartesian ==
    /\ frame.pc \in {"idle", "done"}
    /\ \E x \in XInputs, y \in YInputs, z \in ZInputs :
          EnterFromCartesian(<<x, y, z>>)

\* One pass of do { dLast = dTmp; dTmp = ...; } while (fabs(dLast - dTmp)
\* > EPSILON);
LoopFromCartesian ==
    /\ frame.pc = "loop"
    /\ \E t \in {FromCartesian_Body(frame.p, args[3], frame.dTmp)} :
          frame' = [frame EXCEPT
                      !.dLast = frame.dTmp,
                      !.dTmp = t,
                      !.iterations = Min(@ + 1, MaxIterations),
                      !.pc = IF StepExceedsEpsilon(frame.dTmp, t)
                             THEN "loop" ELSE "exit"]
    /\ UNCHANGED <<m_Latitude, m_Longitude, op, args, ret>>

\* m_Latitude = atan(dTmp) / m_Deg2Rad;
\* m_Longitude = atan2(C.m_y, C.m_x) / m_Deg2Rad;  and the return.
ReturnFromCartesian ==
    /\ frame.pc = "exit"
    /\ m_Latitude' = FromCartesian_Latitude(frame.dTmp)
    /\ m_Longitude' = FromCartesian_Longitude(args)
    /\ frame' = [frame EXCEPT !.pc = "done"]
    /\ UNCHANGED <<op, args, ret>>

NextIter == CallFromCartesian \/ LoopFromCartesian \/ ReturnFromCartesian

\* A call that has started keeps running: its next pass, and its return,
\* are taken.
SpecIter ==
    /\ InitIter
    /\ [][NextIter]_vars
    /\ WF_vars(LoopFromCartesian)
    /\ WF_vars(ReturnFromCartesian)

---------------------------------------------------------------------------
(* The Vincenty inverse and direct methods: VincentyDistance and           *)
(* VincentyProjection.  Both are const methods of the receiver; each runs  *)
(* a do-while loop, one pass of which is one step.  ret is the triple      *)
(* <<s, *pForwardAzimuth, *pReverseAzimuth>> of VincentyDistance and the   *)
(* pair <<RetCoord.m_Latitude, RetCoord.m_Longitude>> of                   *)
(* VincentyProjection.  The quotients of the source are formed for the     *)
(* non-zero divisors that the points and distances drawn here produce.     *)

\* asin() on [-1, 1], as atan2(v, sqrt(1 - v*v)).  An argument that the
\* rounding of a quotient has carried a few millionths beyond 1 is taken
\* as 1.
AsinValue[v \in Int] == Atan2(v, Sqrt(Max(0, Micro - Mul(v, v))))

Asin(v) == AsinValue[v]

\* double r = 1. - flat;
Vincenty_r == Micro - flat

\* double b0 = a0 * r;
Vincenty_b0 == MulDiv(m_a, Vincenty_r, Micro)

\* (a0*a0 - b0*b0)/(b0*b0), formed as 1/(r*r) - 1 (a0*a0 is beyond the
\* integers of the model).
Vincenty_ep2 == Div(Micro, Mul(Vincenty_r, Vincenty_r)) - Micro

\* atan(r * tan(dLat)): the reduced latitude whose cosine and sine are
\* cosu and sinu.
Vincenty_u(dLat) == Atan(Mul(Vincenty_r, Tan(dLat)))

\* The constant n/d of a series, as a fixed-point number.
SeriesCoeff(n, d) == MulDiv(n, Micro, d)

\* 1. + (u2 / 16384.) * (4096. + u2 * (-768. + u2 * (320. - 175. * u2)))
Vincenty_a(u2) ==
    Micro + Mul(u2, SeriesCoeff(4096, 16384)
                    + Mul(u2, SeriesCoeff(-768, 16384)
                              + Mul(u2, SeriesCoeff(320, 16384)
                                        - Mul(SeriesCoeff(175, 16384), u2))))

\* (u2 / 1024.) * (256. + u2 * (-128. + u2 * (74. - 47. * u2)))
Vincenty_b(u2) ==
    Mul(u2, SeriesCoeff(256, 1024)
            + Mul(u2, SeriesCoeff(-128, 1024)
                      + Mul(u2, SeriesCoeff(74, 1024)
                                - Mul(SeriesCoeff(47, 1024), u2))))

\* -1. + 2. * c2sm*c2sm
Vincenty_TwoC2smSq(c2sm) == (2 * Mul(c2sm, c2sm)) - Micro

\* b * ss * (c2sm + (b / 4.) * (cs * (-1. + 2. * c2sm*c2sm)
\*    - (b / 6.) * c2sm * (-3. + 4. * ss*ss) * (-3. + 4. * c2sm*c2sm)))
Vincenty_dsigma(b, ss, cs, c2sm) ==
    Mul(Mul(b, ss),
        c2sm + Mul(b \div 4,
                   Mul(cs, Vincenty_TwoC2smSq(c2sm))
                   - Mul(Mul(Mul(b \div 6, c2sm),
                             (4 * Mul(ss, ss)) - (3 * Micro)),
                         (4 * Mul(c2sm, c2sm)) - (3 * Micro))))

\* flat/16. * cosalpha2*(4. + flat*(4. - 3.*cosalpha2))
Vincenty_c(cosalpha2) ==
    MulDiv(Mul(flat, cosalpha2),
           (4 * Micro) + Mul(flat, (4 * Micro) - (3 * cosalpha2)),
           16 * Micro)

\* (1. - c)*flat*sinalpha*(sigma + c*ss*(c2sm + c*cs*(-1. + 2.*c2sm*c2sm)))
Vincenty_Correction(c, sinalpha, sigma, ss, cs, c2sm) ==
    Mul(Mul(Mul(Micro - c, flat), sinalpha),
        sigma + Mul(Mul(c, ss),
                    c2sm + Mul(Mul(c, cs), Vincenty_TwoC2smSq(c2sm))))

\* ss1 = cosu2 * sin(lambda);
VincentyDistance_ss1(f, lambda) == Mul(f.cosu2, Sin(lambda))

\* ss2 = cosu1 * sinu2 - sinu1 * cosu2 * cos(lambda);
VincentyDistance_ss2(f, lambda) ==
    Mul(f.cosu1, f.sinu2) - Mul(Mul(f.sinu1, f.cosu2), Cos(lambda))

\* sqrt(ss1*ss1 + ss2 * ss2)
VincentyDistance_Norm(ss1, ss2) == Sqrt(Mul(ss1, ss1) + Mul(ss2, ss2))

\* ss = sqrt(ss1*ss1 + ss2 * ss2);
VincentyDistance_ss(f) ==
    VincentyDistance_Norm(VincentyDistance_ss1(f, f.lambda),
                          VincentyDistance_ss2(f, f.lambda))

\* cs = sinu1 * sinu2 + cosu1 * cosu2 * cos(lambda);
VincentyDistance_cs(f) ==
    Mul(f.sinu1, f.sinu2) + Mul(Mul(f.cosu1, f.cosu2), Cos(f.lambda))

\* sinalpha = cosu1 * cosu2 * sin(lambda) / ss;
VincentyDistance_sinalpha(f, ss) ==
    MulDiv(Mul(Mul(f.cosu1, f.cosu2), Sin(f.lambda)), Micro, ss)

\* dtmp = asin(sinalpha); cosalpha = cos(dtmp);
VincentyDistance_cosalpha(sinalpha) == Cos(Asin(sinalpha))

\* cosalpha2 = cosalpha * cosalpha;
VincentyDistance_cosalpha2(cosalpha) == Mul(cosalpha, cosalpha)

\* 2.*sinu1*sinu2/cosalpha2.  cosalpha of the double is never 0 (cos(pi/2)
\* is 6e-17), so that a numerator of 0 gives 0.
VincentyDistance_Quot(num, cosalpha2) ==
    IF num = 0 THEN 0 ELSE MulDiv(num, Micro, cosalpha2)

\* c2sm = cs - 2.*sinu1*sinu2/cosalpha2;
VincentyDistance_c2sm(f, cs, cosalpha2) ==
    cs - VincentyDistance_Quot(2 * Mul(f.sinu1, f.sinu2), cosalpha2)

\* sigma as the loop and the distance take it: asin(ss).
VincentyDistance_sigma(ss) == Asin(ss)

\* lambda = omega + (1. - c)*flat*sinalpha*(asin(ss) + c*ss*(c2sm + ...));
\* and the locals that the code after the loop reads.
VincentyDistance_Assign(f, ss, cs, sinalpha, cosalpha2, c2sm) ==
    [f EXCEPT
       !.testlambda = f.lambda,
       !.ss = ss, !.cs = cs, !.cosalpha2 = cosalpha2, !.c2sm = c2sm,
       !.lambda = f.omega + Vincenty_Correction(Vincenty_c(cosalpha2),
                                 sinalpha, VincentyDistance_sigma(ss),
                                 ss, cs, c2sm)]

VincentyDistance_AfterAlpha(f, ss, cs, sinalpha, cosalpha2) ==
    VincentyDistance_Assign(f, ss, cs, sinalpha, cosalpha2,
                            VincentyDistance_c2sm(f, cs, cosalpha2))

VincentyDistance_AfterSigma(f, ss, cs, sinalpha) ==
    VincentyDistance_AfterAlpha(f, ss, cs, sinalpha,
        VincentyDistance_cosalpha2(VincentyDistance_cosalpha(sinalpha)))

VincentyDistance_AfterNorm(f, ss) ==
    VincentyDistance_AfterSigma(f, ss, VincentyDistance_cs(f),
                                VincentyDistance_sinalpha(f, ss))

\* The body of the loop of VincentyDistance: the locals after one pass.
VincentyDistance_Body(f) ==
    VincentyDistance_AfterNorm(f, VincentyDistance_ss(f))

\* b0 * a * sigma
VincentyDistance_Length(a, sigma) == MulDiv(Vincenty_b0, Mul(a, sigma), Micro)

\* double s = b0 * a * (asin(ss) - dsigma);
VincentyDistance_sOf(f, u2) ==
    VincentyDistance_Length(
        Vincenty_a(u2),
        VincentyDistance_sigma(f.ss)
        - Vincenty_dsigma(Vincenty_b(u2), f.ss, f.cs, f.c2sm))

\* double u2 = cosalpha2 * (a0*a0 - b0*b0)/(b0*b0);  and the distance s.
VincentyDistance_s(f) == VincentyDistance_sOf(f, Mul(f.cosalpha2, Vincenty_ep2))

\* atan2(cosu2 * sin(lambda), (cosu1 * sinu2 - sinu1 * cosu2 * cos(lambda)))
\*    / m_Deg2Rad
VincentyDistance_alpha12(f) ==
    RadToDeg(Atan2(VincentyDistance_ss1(f, f.lambda),
                   VincentyDistance_ss2(f, f.lambda)))

\* atan2(cosu1 * sin(lambda), (-sinu1 * cosu2 + cosu1 * sinu2 * cos(lambda)))
\*    / m_Deg2Rad
VincentyDistance_alpha21(f) ==
    RadToDeg(Atan2(Mul(f.cosu1, Sin(f.lambda)),
                   Mul(Mul(f.cosu1, f.sinu2), Cos(f.lambda))
                   - Mul(f.sinu1, f.cosu2)))

\* *pForwardAzimuth = fmod(alpha12 + 360., 360.);
ForwardAzimuth(alpha12) == Fmod(alpha12 + Deg(360), Deg(360))

\* The reverse azimuth with the offset of 180 degrees left out.
ReverseAzimuth_NoOffset(alpha21) == Fmod(alpha21, Deg(360))

\* *pReverseAzimuth = fmod(alpha21 + 180., 360.);
ReverseAzimuth(alpha21) == Fmod(alpha21 + Deg(180), Deg(360))

\* sigma1 = atan(tanu1 / cos(dAzimuth)).  The cosine of the double nearest
\* to 90 degrees is 6e-17, so that where the cosine of the model is 0 the
\* quotient is 0 for tanu1 = 0 and has the sign of tanu1 otherwise.
VincentyProjection_sigma1(tanu1, cosaz) ==
    IF cosaz > 0 THEN Atan2(tanu1, cosaz)
    ELSE IF cosaz < 0 THEN Atan2(-tanu1, -cosaz)
    ELSE IF tanu1 = 0 THEN 0 ELSE Sgn(tanu1) * HalfPi

\* double cosalpha = sqrt(1. - sinalpha*sinalpha);  (a sinalpha that the
\* rounding of the sine has carried a millionth beyond 1 is taken as 1)
VincentyProjection_cosalpha(sinalpha) ==
    Sqrt(Max(0, Micro - Mul(sinalpha, sinalpha)))

\* double usqr = cosalpha*cosalpha * (a0*a0 - b0*b0) / (b0*b0);
VincentyProjection_usqr(cosalpha) ==
    Mul(Mul(cosalpha, cosalpha), Vincenty_ep2)

\* s / (b0 * a)
VincentyProjection_sigma0(s, a) ==
    MulDiv(s, Micro, MulDiv(Vincenty_b0, a, Micro))

\* The locals of a call of VincentyProjection, before any call.
ProjectionIdleFrame ==
    [pc |-> "idle", dAzimuth |-> 0, sinu1 |-> 0, cosu1 |-> 0,
     sinalpha |-> 0, cosalpha |-> 0, b |-> 0, sigma0 |-> 0, sigma1 |-> 0,
     sigma |-> 0, lastsigma |-> 0, iterations |-> 0]

VincentyProjection_WithSeries(f, s, usqr) ==
    [f EXCEPT
       !.b = Vincenty_b(usqr),
       !.sigma0 = VincentyProjection_sigma0(s, Vincenty_a(usqr)),
       !.sigma = VincentyProjection_sigma0(s, Vincenty_a(usqr))]

VincentyProjection_WithAlpha(f, s, sinalpha, cosalpha) ==
    VincentyProjection_WithSeries(
        [f EXCEPT !.sinalpha = sinalpha, !.cosalpha = cosalpha],
        s, VincentyProjection_usqr(cosalpha))

VincentyProjection_WithU(f, s, dAzimuth, cosu1) ==
    VincentyProjection_WithAlpha(
        f, s, Mul(cosu1, Sin(dAzimuth)),
        VincentyProjection_cosalpha(Mul(cosu1, Sin(dAzimuth))))

\* The locals of VincentyProjection on entry to its loop, for the azimuth
\* dAzimuth (radians), the distance s and tanu1 = r * tan(dLat1).
VincentyProjection_Start(dAzimuth, s, tanu1) ==
    VincentyProjection_WithU(
        [ProjectionIdleFrame EXCEPT
           !.pc = "loop",
           !.dAzimuth = dAzimuth,
           !.sinu1 = Sin(Atan(tanu1)),
           !.cosu1 = Cos(Atan(tanu1)),
           !.sigma1 = VincentyProjection_sigma1(tanu1, Cos(dAzimuth))],
        s, dAzimuth, Cos(Atan(tanu1)))

\* deltasigma for the sigma of the locals f, with
\* twosigmam = 2.* sigma1 + sigma; ss = sin(sigma); cs = cos(sigma);
\* c2sm = cos(twosigmam);
VincentyProjection_deltasigma(f) ==
    Vincenty_dsigma(f.b, Sin(f.sigma), Cos(f.sigma),
                    Cos((2 * f.sigma1) + f.sigma))

\* The body of the loop of VincentyProjection: the locals after one pass.
VincentyProjection_Body(f) ==
    [f EXCEPT
       !.lastsigma = f.sigma,
       !.sigma = f.sigma0 + VincentyProjection_deltasigma(f)]

\* term1 = sinu1 * cs + cosu1 * ss * cos(dAzimuth);
VincentyProjection_term1(f, ss, cs) ==
    Mul(f.sinu1, cs) + Mul(Mul(f.cosu1, ss), Cos(f.dAzimuth))

\* term4 = sinu1 * ss - cosu1 * cs * cos(dAzimuth);
VincentyProjection_term4(f, ss, cs) ==
    Mul(f.sinu1, ss) - Mul(Mul(f.cosu1, cs), Cos(f.dAzimuth))

\* term2 = sinalpha*sinalpha + term4*term4;  term3 = r * sqrt(term2);
VincentyProjection_term3(sinalpha, term4) ==
    Mul(Vincenty_r, Sqrt(Mul(sinalpha, sinalpha) + Mul(term4, term4)))

\* double dLat2 = atan2(term1, term3);
VincentyProjection_dLat2(f, ss, cs) ==
    Atan2(VincentyProjection_term1(f, ss, cs),
          VincentyProjection_term3(f.sinalpha,
                                   VincentyProjection_term4(f, ss, cs)))

\* term1 = ss * sin(dAzimuth);
\* term2 = cosu1 * cs - sinu1 * ss * cos(dAzimuth);
\* double lambda = atan2(term1, term2);
VincentyProjection_lambda(f, ss, cs) ==
    Atan2(Mul(ss, Sin(f.dAzimuth)),
          Mul(f.cosu1, cs) - Mul(Mul(f.sinu1, ss), Cos(f.dAzimuth)))

\* double omega = lambda - (1. - c) * flat * sinalpha * (sigma + c * ss *
\*    (c2sm + c * cs * (-1. + 2. * c2sm*c2sm)));
VincentyProjection_omega(f, ss, cs, c2sm) ==
    VincentyProjection_lambda(f, ss, cs)
    - Vincenty_Correction(Vincenty_c(Mul(f.cosalpha, f.cosalpha)),
                          f.sinalpha, f.sigma, ss, cs, c2sm)

\* RetCoord.m_Latitude = fmod(dLat2/m_Deg2Rad, 360.);
VincentyProjection_Latitude(f) ==
    Fmod(RadToDeg(VincentyProjection_dLat2(f, Sin(f.sigma), Cos(f.sigma))),
         Deg(360))

\* double dLong2 = dLong1 + omega;
\* RetCoord.m_Longitude = fmod(dLong2/m_Deg2Rad, 360.);
VincentyProjection_Longitude(f, dLong1) ==
    Fmod(RadToDeg(dLong1 + VincentyProjection_omega(
                      f, Sin(f.sigma), Cos(f.sigma),
                      Cos((2 * f.sigma1) + f.sigma))),
         Deg(360))

\* The locals of a call of VincentyDistance, before any call.  caller holds
\* the locals of the caller: the azimuth and the distance from which it
\* obtained P by VincentyProjection, or <<>> for a point of its own.
VincentyIdleFrame ==
    [pc |-> "idle", cosu1 |-> 0, sinu1 |-> 0, cosu2 |-> 0, sinu2 |-> 0,
     omega |-> 0, lambda |-> 0, testlambda |-> 0, ss |-> 0, cs |-> 0,
     cosalpha2 |-> 0, c2sm |-> 0, iterations |-> 0, caller |-> <<>>]

\* m_Latitude == P.m_Latitude && m_Longitude == P.m_Longitude
SamePoint(lat1, lon1, lat2, lon2) == lat1 = lat2 /\ lon1 = lon2

\* The early return with the reverse azimuth passed through the
\* fmod(alpha21 + 180., 360.) of the general case.
VincentyDistance_Identical_ReverseOffset == <<0, 0, Deg(180)>>

\* *pForwardAzimuth = 0.; *pReverseAzimuth = 0.; return 0.;
VincentyDistance_Identical == <<0, 0, 0>>

\* The locals of VincentyDistance on entry to its loop, for the reduced
\* latitudes u1 and u2 and the longitude difference omega.
VincentyDistance_Start(u1, u2, omega) ==
    [VincentyIdleFrame EXCEPT
       !.pc = "loop",
       !.cosu1 = Cos(u1), !.sinu1 = Sin(u1),
       !.cosu2 = Cos(u2), !.sinu2 = Sin(u2),
       !.omega = omega, !.lambda = omega]

\* The points and the pairs of points of the Vincenty calls: on the equator,
\* on a meridian and in general position, east and west of each other, less
\* and more than a quarter of the circumference apart.
VincentyOrigins ==
    { <<Deg(0), Deg(0)>>, <<Deg(30), Deg(0)>>, <<Deg(-30), Deg(170)>>,
      <<Deg(60), Deg(20)>> }

VincentyTargets ==
    { <<Deg(0), Deg(0)>>, <<Deg(0), Deg(40)>>, <<Deg(0), Deg(80)>>,
      <<Deg(0), Deg(100)>>, <<Deg(30), Deg(0)>>, <<Deg(30), Deg(-40)>>,
      <<Deg(-30), Deg(170)>>, <<Deg(-30), Deg(0)>>, <<Deg(60), Deg(20)>>,
      <<Deg(60), Deg(-100)>>, <<Deg(-60), Deg(20)>>, <<Deg(30), Deg(10)>> }

\* The azimuths (degrees) and distances (metres) of the VincentyProjection
\* calls from every origin.
AzimuthInputs == { Deg(20), Deg(45), Deg(90), Deg(225), Deg(270) }
DistanceInputs == { 2000000, 5000000 }

\* The calls <<m_Latitude, m_Longitude, dAzimuth, dDistance>> of
\* VincentyProjection over 10,000 km.  At this distance the end point is
\* about a quarter of the circumference away, where asin() is steep; the
\* calls are those on which the loops of the model make the decisions that
\* the loops on doubles make.
LongProjections ==
    { <<Deg(-30), Deg(170), Deg(90), 10000000>>,
      <<Deg(-30), Deg(170), Deg(225), 10000000>>,
      <<Deg(30), Deg(0), Deg(45), 10000000>>,
      <<Deg(30), Deg(0), Deg(225), 10000000>>,
      <<Deg(30), Deg(0), Deg(270), 10000000>> }

VincentyProjections ==
    { <<O[1], O[2], az, d>> :
         O \in VincentyOrigins, az \in AzimuthInputs, d \in DistanceInputs }
    \cup LongProjections

\* Largest count of passes that is recorded.
VincentyCap == 20

InitVincenty ==
    /\ \E O \in VincentyOrigins : m_Latitude = O[1] /\ m_Longitude = O[2]
    /\ op = "new"
    /\ args = <<>>
    /\ ret = <<>>
    /\ frame = VincentyIdleFrame

\* VincentyDistance up to its loop, on the point P: the early return for
\* identical points, or the locals on entry to the loop.
EnterVincentyDistance(P, caller) ==
    /\ op' = "VincentyDistance"
    /\ args' = P
    /\ IF SamePoint(m_Latitude, m_Longitude, P[1], P[2])
       THEN /\ ret' = VincentyDistance_Identical
            /\ frame' = [VincentyIdleFrame EXCEPT
                            !.pc = "done", !.caller = caller]
       ELSE /\ ret' = <<>>
            /\ frame' = [VincentyDistance_Start(
                             Vincenty_u(DegToRad(m_Latitude)),
                             Vincenty_u(DegToRad(P[1])),
                             DegToRad(P[2]) - DegToRad(m_Longitude))
                         EXCEPT !.caller = caller]
    /\ UNCHANGED <<m_Latitude, m_Longitude>>

CallVincentyDistance ==
    /\ frame.pc \in {"idle", "done"}
    /\ \E P \in VincentyTargets : EnterVincentyDistance(P, <<>>)

\* VincentyDistance to the point that VincentyProjection has just returned.
CallVincentyDistanceOfProjection ==
    /\ op = "VincentyProjection"
    /\ frame.pc = "done"
    /\ EnterVincentyDistance(ret, args)

\* One pass of do { testlambda = lambda; ... } while (dDeltaLambda > EPSILON);
LoopVincentyDistance ==
    /\ op = "VincentyDistance"
    /\ frame.pc = "loop"
    /\ \E f \in {VincentyDistance_Body(frame)} :
          frame' = [f EXCEPT
                      !.iterations = Min(@ + 1, VincentyCap),
                      !.pc = IF Abs(f.testlambda - f.lambda) > EPSILON
                             THEN "loop" ELSE "exit"]
    /\ UNCHANGED <<m_Latitude, m_Longitude, op, args, ret>>

\* The code of VincentyDistance after its loop, and the return.
ReturnVincentyDistance ==
    /\ op = "VincentyDistance"
    /\ frame.pc = "exit"
    /\ ret' = <<VincentyDistance_s(frame),
                ForwardAzimuth(VincentyDistance_alpha12(frame)),
                ReverseAzimuth(VincentyDistance_alpha21(frame))>>
    /\ frame' = [frame EXCEPT !.pc = "done"]
    /\ UNCHANGED <<m_Latitude, m_Longitude, op, args>>

\* VincentyProjection up to its loop.
CallVincentyProjection ==
    /\ frame.pc \in {"idle", "done"}
    /\ \E c \in VincentyProjections :
          /\ c[1] = m_Latitude /\ c[2] = m_Longitude
          /\ op' = "VincentyProjection"
          /\ args' = <<c[3], c[4]>>
          /\ ret' = <<>>
          /\ frame' = VincentyProjection_Start(
                          DegToRad(c[3]), c[4],
                          Mul(Vincenty_r, Tan(DegToRad(m_Latitude))))
    /\ UNCHANGED <<m_Latitude, m_Longitude>>

\* One pass of do { lastsigma = sigma; ... } while (fabs(sigma - lastsigma)
\* > EPSILON);
LoopVincentyProjection ==
    /\ op = "VincentyProjection"
    /\ frame.pc = "loop"
    /\ \E f \in {VincentyProjection_Body(frame)} :
          frame' = [f EXCEPT
                      !.iterations = Min(@ + 1, VincentyCap),
                      !.pc = IF Abs(f.sigma - f.lastsigma) > EPSILON
                             THEN "loop" ELSE "exit"]
    /\ UNCHANGED <<m_Latitude, m_Longitude, op, args, ret>>

\* The code of VincentyProjection after its loop, and the return of
\* RetCoord.
ReturnVincentyProjection ==
    /\ op = "VincentyProjection"
    /\ frame.pc = "exit"
    /\ ret' = <<VincentyProjection_Latitude(frame),
                VincentyProjection_Longitude(frame, DegToRad(m_Longitude))>>
    /\ frame' = [frame EXCEPT !.pc = "done"]
    /\ UNCHANGED <<m_Latitude, m_Longitude, op, args>>

NextVincenty ==
    \/ CallVincentyDistance
    \/ CallVincentyDistanceOfProjection
    \/ LoopVincentyDistance
    \/ ReturnVincentyDistance
    \/ CallVincentyProjection
    \/ LoopVincentyProjection
    \/ ReturnVincentyProjection

SpecVincenty == InitVincenty /\ [][NextVincenty]_vars

---------------------------------------------------------------------------
(* The spherical operations on a line: IsBetween and the distance to the   *)
(* great circle through P1 and P2, SphericalDistance(P1, P2).  Both are    *)
(* single calls on the receiver; args is <<P1, P2>>, each a pair           *)
(* <<m_Latitude, m_Longitude>>, and ret is the returned bool or double as  *)
(* a record of its class and value.                                        *)

\* A returned bool.
Bool(b) == [cls |-> "bool", v |-> b]

\* const double CLatLon::m_Radius = 6366707.01896486;
m_Radius == 6366707

\* (m_Longitude - P1.m_Longitude) * (P2.m_Longitude - P1.m_Longitude)
\*    * cosLat * cosLat + (m_Latitude - P1.m_Latitude)
\*    * (P2.m_Latitude - P1.m_Latitude), in square degrees.
IsBetween_Numerator(lat, lon, P1, P2, cosLat) ==
    Mul(Mul(lon - P1[2], P2[2] - P1[2]), Mul(cosLat, cosLat))
    + Mul(lat - P1[1], P2[1] - P1[1])

\* u /= ...: the relative position on the line connecting P1 and P2.  The
\* divisor is the numerator of the point P2; for P1 = P2 it is 0 and u is
\* 0/0.
IsBetween_u(lat, lon, P1, P2, cosLat) ==
    DDiv(IsBetween_Numerator(lat, lon, P1, P2, cosLat),
         IsBetween_Numerator(P2[1], P2[2], P1, P2, cosLat))

\* return (u >= 0. && u < 1.);  (both comparisons are false for a NaN, the
\* second for an infinity)
InUnitSpan(u) == IsFinite(u) /\ u.v >= 0 /\ u.v < Micro

IsBetween(lat, lon, P1, P2) ==
    InUnitSpan(IsBetween_u(lat, lon, P1, P2, Cos(DegToRad(lat))))

\* CCartesianCoord(m_Radius * cos(dLong) * cos(dLat),
\*    m_Radius * sin(dLong) * cos(dLat), m_Radius * sin(dLat)), in metres.
ToSphericalCartesian_Of(dLat, dLong) ==
    << MulDiv(m_Radius, Mul(Cos(dLong), Cos(dLat)), Micro),
       MulDiv(m_Radius, Mul(Sin(dLong), Cos(dLat)), Micro),
       MulDiv(m_Radius, Sin(dLat), Micro) >>

ToSphericalCartesian(lat, lon) ==
    ToSphericalCartesian_Of(DegToRad(lat), DegToRad(lon))

\* The cross product of SphericalCross for dDeltaLat, dSumLat, dDeltaLong
\* and dAvgLong; its third component is cos(dLat1) * cos(dLat2)
\* * sin(-2.*dDeltaLong).
SphericalCross_Of(dDeltaLat, dSumLat, dDeltaLong, dAvgLong, z) ==
    << Mul(Mul(Sin(dSumLat), Cos(dAvgLong)), Sin(dDeltaLong))
         - Mul(Mul(Sin(dDeltaLat), Sin(dAvgLong)), Cos(dDeltaLong)),
       Mul(Mul(Sin(dDeltaLat), Cos(dAvgLong)), Cos(dDeltaLong))
         + Mul(Mul(Sin(dSumLat), Sin(dAvgLong)), Sin(dDeltaLong)),
       z >>

SphericalCross_Rad(dLat1, dLong1, dLat2, dLong2) ==
    SphericalCross_Of(dLat1 - dLat2, dLat1 + dLat2,
                      (dLong1 - dLong2) \div 2, (dLong1 + dLong2) \div 2,
                      Mul(Mul(Cos(dLat1), Cos(dLat2)),
                          Sin(-2 * ((dLong1 - dLong2) \div 2))))

\* P1.SphericalCross(P2): the un-normalized normal of the great circle.
SphericalCross(P1, P2) ==
    SphericalCross_Rad(DegToRad(P1[1]), DegToRad(P1[2]),
                       DegToRad(P2[1]), DegToRad(P2[2]))

\* The magnitude of a vector.
Magnitude(N) == Sqrt(Mul(N[1], N[1]) + Mul(N[2], N[2]) + Mul(N[3], N[3]))

\* CCartesianCoord::Normalize: every component divided by the magnitude; a
\* vector of magnitude 0 has the components 0/0.
Normalize(N) ==
    << DDiv(N[1], Magnitude(N)), DDiv(N[2], Magnitude(N)),
       DDiv(N[3], Magnitude(N)) >>

\* CCartesianCoord::dot of a unit vector N and a vector P of metres: the sum
\* of the products of the components, in whole metres; NaN when a component
\* of N is.
dot(N, P) ==
    IF \E i \in 1..3 : ~IsFinite(N[i]) THEN NaN
    ELSE Num(MulDiv(N[1].v, P[1], Micro) + MulDiv(N[2].v, P[2], Micro)
             + MulDiv(N[3].v, P[3], Micro))

\* acos() on [-1, 1], as atan2(sqrt(1 - x*x), x).  An argument that the
\* rounding of a sum has carried a few millionths beyond 1 is taken as 1.
AcosValue(x) == Atan2(Sqrt(Max(0, Micro - Mul(x, x))), x)

\* acos() of a double x that holds whole metres: a domain error (NaN) for a
\* NaN and for x beyond 1 either way.
Acos(x) ==
    IF ~IsFinite(x) \/ Abs(x.v) > 1 THEN NaN
    ELSE Num(AcosValue(x.v * Micro))

\* dSign * fabs(m_Radius * (PI/2. - acos(...))), in metres; NaN when the
\* acos() is.
SphericalDistance_Signed(dSign, angle) ==
    IF ~IsFinite(angle) THEN NaN
    ELSE Num(dSign * Abs(MulDiv(m_Radius, HalfPi - angle.v, Micro)))

\* double dSign = 1.; if (!IsBetween(P1, P2)) { dSign = -1.; }
SphericalDistance_dSign(between) == IF between THEN 1 ELSE -1

\* double CLatLon::SphericalDistance(CLatLon& P1, CLatLon& P2)
SphericalDistance(lat, lon, P1, P2) ==
    SphericalDistance_Signed(
        SphericalDistance_dSign(IsBetween(lat, lon, P1, P2)),
        Acos(dot(Normalize(SphericalCross(P1, P2)),
                 ToSphericalCartesian(lat, lon))))

\* The points that IsBetween and SphericalDistance are called on, and the
\* lines <<P1, P2>>: along the equator and in general position, and the
\* lines of no length.  The lines are shorter than 8 degrees (IsBetween is
\* a test for short lines).  dot is formed in whole metres, so that the
\* points for SphericalDistance are either on the equator with the line or
\* kilometres off the great circle.
SphericalPoints ==
    { <<Deg(0), Deg(0)>>, <<Deg(0), Deg(4)>>, <<Deg(0), Deg(8)>>,
      <<Deg(1), Deg(4)>>, <<Deg(-1), Deg(4)>>, <<Deg(1), Deg(12)>>,
      <<Deg(-1), Deg(12)>>, <<Deg(2), Deg(-5)>>,
      <<Deg(10), Deg(20)>>, <<Deg(15), Deg(25)>>, <<Deg(13), Deg(22)>>,
      <<Deg(12), Deg(23)>>, <<Deg(17), Deg(28)>>, <<Deg(8), Deg(17)>> }

SphericalLines ==
    { << <<Deg(0), Deg(0)>>, <<Deg(0), Deg(8)>> >>,
      << <<Deg(0), Deg(8)>>, <<Deg(0), Deg(0)>> >>,
      << <<Deg(10), Deg(20)>>, <<Deg(15), Deg(25)>> >>,
      << <<Deg(15), Deg(25)>>, <<Deg(10), Deg(20)>> >>,
      << <<Deg(0), Deg(0)>>, <<Deg(0), Deg(0)>> >>,
      << <<Deg(10), Deg(20)>>, <<Deg(10), Deg(20)>> >> }

OnEquator(L) == L[1][1] = 0 /\ L[2][1] = 0

\* The calls <<P, <<P1, P2>>>> of SphericalDistance(P1, P2).
CrossTrackCalls ==
    { <<P, L>> \in SphericalPoints \X SphericalLines :
         \/ L[1] = L[2]
         \/ OnEquator(L)
         \/ P \notin { <<Deg(10), Deg(20)>>, <<Deg(15), Deg(25)>> } }

InitSpherical ==
    /\ \E P \in SphericalPoints : m_Latitude = P[1] /\ m_Longitude = P[2]
    /\ op = "new"
    /\ args = <<>>
    /\ ret = <<>>
    /\ frame = IdleFrame

CallIsBetween ==
    /\ \E L \in SphericalLines :
          /\ args' = L
          /\ ret' = Bool(IsBetween(m_Latitude, m_Longitude, L[1], L[2]))
    /\ op' = "IsBetween"
    /\ UNCHANGED <<m_Latitude, m_Longitude, frame>>

CallSphericalDistance ==
    /\ \E c \in CrossTrackCalls :
          /\ c[1] = <<m_Latitude, m_Longitude>>
          /\ args' = c[2]
          /\ ret' = SphericalDistance(m_Latitude, m_Longitude,
                                      c[2][1], c[2][2])
    /\ op' = "SphericalDistance"
    /\ UNCHANGED <<m_Latitude, m_Longitude, frame>>

NextSpherical == CallIsBetween \/ CallSphericalDistance

SpecSpherical == InitSpherical /\ [][NextSpherical]_vars

---------------------------------------------------------------------------
(* Two threads on one CLatLon, P: SpecConcurrent.  The writer calls        *)
(* P.ConvertUTM, whose last two statements assign m_Latitude and then      *)
(* m_Longitude; the reader calls SphericalDistance(P) on a point of its    *)
(* own, which reads P.m_Longitude and then P.m_Latitude.  The class has no *)
(* lock, so that the statements of the two calls interleave freely; one    *)
(* statement that touches P is one step.  m_Latitude and m_Longitude are   *)
(* the members of P, args the arguments of the writer's call and ret the   *)
(* distance returned to the reader.                                        *)

\* sin(dLat1) * sin(dLat2) + cos(dLat1) * cos(dLat2) * cos(dDeltaLong)
SphericalDistance_CosAngle(dLat1, dLat2, dDeltaLong) ==
    Mul(Sin(dLat1), Sin(dLat2))
    + Mul(Mul(Cos(dLat1), Cos(dLat2)), Cos(dDeltaLong))

\* dDeltaLong *= cos(dLat2);
\* dDistance = m_Radius * sqrt(dDeltaLat*dDeltaLat + dDeltaLong*dDeltaLong);
SphericalDistance_Linear(dLat1, dLat2, dDeltaLong) ==
    MulDiv(m_Radius, Hypot(dLat1 - dLat2, Mul(dDeltaLong, Cos(dLat2))), Micro)

\* if (dDistance < .01) { ... } return dDistance;  (in whole metres)
SphericalDistance_Choose(dDistance, dLat1, dLat2, dDeltaLong) ==
    IF dDistance < 1
    THEN SphericalDistance_Linear(dLat1, dLat2, dDeltaLong)
    ELSE dDistance

SphericalDistance_Rad(dLat1, dLat2, dDeltaLong) ==
    SphericalDistance_Choose(
        MulDiv(m_Radius,
               AcosValue(SphericalDistance_CosAngle(dLat1, dLat2, dDeltaLong)),
               Micro),
        dLat1, dLat2, dDeltaLong)

\* double CLatLon::SphericalDistance(CLatLon& P), on the point (lat, lon)
\* for the members PLatitude and PLongitude it has read from P.
SphericalDistanceToPoint(lat, lon, PLatitude, PLongitude) ==
    SphericalDistance_Rad(DegToRad(lat), DegToRad(PLatitude),
                          DegToRad(lon - PLongitude))

\* The point of the reader, on which it calls SphericalDistance(P).
ObserverPoint == <<Deg(0), Deg(7)>>

\* What P holds before the writer's first call.
SharedPoint == <<Deg(10), Deg(9)>>

\* The arguments of the writer's calls of ConvertUTM: letter 'N'.
SharedConversions ==
    { <<z, 78, e, n>> :
         z \in ZoneInputs, e \in EastingInputs, n \in NorthingInputs }

\* The positions of the two calls and their locals: computed is the pair
\* <<dLatitude / m_Deg2Rad, (dCentralLongitude + dLongitude) / m_Deg2Rad>>
\* of the writer, PLongitude and PLatitude what the reader has read.
ConcurrentIdleFrame ==
    [writer |-> "idle", reader |-> "idle", computed |-> <<0, 0>>,
     PLatitude |-> 0, PLongitude |-> 0]

InitConcurrent ==
    /\ m_Latitude = SharedPoint[1]
    /\ m_Longitude = SharedPoint[2]
    /\ op = "new"
    /\ args = <<>>
    /\ ret = 0
    /\ frame = ConcurrentIdleFrame

\* The writer enters ConvertUTM and computes dLatitude and dLongitude.
WriterComputes ==
    /\ frame.writer = "idle"
    /\ \E a \in SharedConversions :
          /\ ZoneLetterFound(a[2])
          /\ args' = a
          /\ frame' = [frame EXCEPT
                          !.writer = "latitude",
                          !.computed = ConvertUTM_LatLon(a[1], a[2],
                                                         a[3], a[4])]
    /\ op' = "ConvertUTM"
    /\ UNCHANGED <<m_Latitude, m_Longitude, ret>>

\* m_Latitude = dLatitude / m_Deg2Rad;
WriterAssignsLatitude ==
    /\ frame.writer = "latitude"
    /\ m_Latitude' = frame.computed[1]
    /\ frame' = [frame EXCEPT !.writer = "longitude"]
    /\ op' = "ConvertUTM"
    /\ UNCHANGED <<m_Longitude, args, ret>>

\* m_Longitude = (dCentralLongitude + dLongitude) / m_Deg2Rad; return true;
WriterAssignsLongitude ==
    /\ frame.writer = "longitude"
    /\ m_Longitude' = frame.computed[2]
    /\ frame' = [frame EXCEPT !.writer = "idle"]
    /\ op' = "ConvertUTM"
    /\ UNCHANGED <<m_Latitude, args, ret>>

\* double dDeltaLong = (m_Longitude - P.m_Longitude) * m_Deg2Rad;
ReaderReadsLongitude ==
    /\ frame.reader \in {"idle", "done"}
    /\ frame' = [frame EXCEPT
                    !.reader = "latitude", !.PLongitude = m_Longitude]
    /\ op' = "SphericalDistance"
    /\ UNCHANGED <<m_Latitude, m_Longitude, args, ret>>

\* double dLat2 = P.m_Latitude * m_Deg2Rad; ... return dDistance;
ReaderReadsLatitude ==
    /\ frame.reader = "latitude"
    /\ frame' = [frame EXCEPT !.reader = "done", !.PLatitude = m_Latitude]
    /\ ret' = SphericalDistanceToPoint(ObserverPoint[1], ObserverPoint[2],
                                       m_Latitude, frame.PLongitude)
    /\ op' = "SphericalDistance"
    /\ UNCHANGED <<m_Latitude, m_Longitude, args>>

NextConcurrent ==
    \/ WriterComputes
    \/ WriterAssignsLatitude
    \/ WriterAssignsLongitude
    \/ ReaderReadsLongitude
    \/ ReaderReadsLatitude

SpecConcurrent == InitConcurrent /\ [][NextConcurrent]_vars

---------------------------------------------------------------------------
(* The great-circle operations on one point: SpecGreatCircle.              *)
(* SphericalProjection returns a new point, ret = <<RetCoord.m_Latitude,   *)
(* RetCoord.m_Longitude>> for args = <<dAzimuth, dDistance>>;              *)
(* SphericalDistance(P) returns the distance in metres for args = P.       *)

\* double dLat2 = asin(sin(dLat1)*cos(s) + cos(dLat1)*sin(s)*cos(dAzimuth));
SphericalProjection_dLat2(dLat1, s, dAzimuth) ==
    Asin(Mul(Sin(dLat1), Cos(s)) + Mul(Mul(Cos(dLat1), Sin(s)), Cos(dAzimuth)))

\* double dLong2 = atan2(sin(dAzimuth)*sin(s)*cos(dLat1),
\*                       cos(s) - sin(dLat1)*sin(dLat2));
SphericalProjection_dLong2(dLat1, s, dAzimuth, dLat2) ==
    Atan2(Mul(Mul(Sin(dAzimuth), Sin(s)), Cos(dLat1)),
          Cos(s) - Mul(Sin(dLat1), Sin(dLat2)))

\* RetCoord.m_Longitude = fmod(dLong2 / m_Deg2Rad + 180., 360.) - 180.;
\* (dLong1 = m_Deg2Rad * m_Longitude is computed and not used)
SphericalProjection_Longitude(dLong1, dLong2) ==
    Fmod(RadToDeg(dLong2) + Deg(180), Deg(360)) - Deg(180)

\* RetCoord for the radians dLat1, dLong1, dAzimuth, the arc s and dLat2.
SphericalProjection_Ret(dLat1, dLong1, s, dAzimuth, dLat2) ==
    << RadToDeg(dLat2),
       SphericalProjection_Longitude(
           dLong1, SphericalProjection_dLong2(dLat1, s, dAzimuth, dLat2)) >>

SphericalProjection_Rad(dLat1, dLong1, s, dAzimuth) ==
    SphericalProjection_Ret(dLat1, dLong1, s, dAzimuth,
                            SphericalProjection_dLat2(dLat1, s, dAzimuth))

\* CLatLon CLatLon::SphericalProjection(double dAzimuth, double dDistance)
\* on the point (lat, lon); s = dDistance / m_Radius.
SphericalProjection(lat, lon, dAzimuth, dDistance) ==
    SphericalProjection_Rad(DegToRad(lat), DegToRad(lon),
                            MulDiv(dDistance, Micro, m_Radius),
                            DegToRad(dAzimuth))

\* The points that the two operations are called on, the azimuths
\* (degrees) and the distances (metres) of the projections.
GreatCircleOrigins ==
    { <<Deg(0), Deg(0)>>, <<Deg(0), Deg(10)>>, <<Deg(0), Deg(180)>>,
      <<Deg(45), Deg(-180)>>, <<Deg(60), Deg(20)>>, <<Deg(10), Deg(20)>>,
      <<Deg(10), Deg(50)>>, <<Deg(-30), Deg(170)>> }

ProjectionAzimuths == { Deg(0), Deg(45), Deg(90), Deg(270) }
ProjectionDistances == { 0, 1000000, 2000000 }

\* The calls <<receiver, P>> of SphericalDistance(P): the receiver with its
\* own location written with the longitude or with the longitude a whole
\* turn or two away, and two origins of different latitudes.  The distance
\* is formed in whole metres; the first kind of call is made on the
\* latitudes 0, 45 and 60, where the cosine law gives exactly 0 with
\* doubles too.
DistanceCalls ==
    { <<O, <<O[1], O[2] + (k * Deg(360))>>>> :
         O \in { Q \in GreatCircleOrigins : Q[1] \in {Deg(0), Deg(45), Deg(60)} },
         k \in {-1, 0, 1, 2} }
    \cup { c \in GreatCircleOrigins \X GreatCircleOrigins : c[1][1] # c[2][1] }

InitGreatCircle ==
    /\ \E O \in GreatCircleOrigins : m_Latitude = O[1] /\ m_Longitude = O[2]
    /\ op = "new"
    /\ args = <<>>
    /\ ret = <<>>
    /\ frame = IdleFrame

CallSphericalProjection ==
    /\ \E az \in ProjectionAzimuths, d \in ProjectionDistances :
          /\ args' = <<az, d>>
          /\ ret' = SphericalProjection(m_Latitude, m_Longitude, az, d)
    /\ op' = "SphericalProjection"
    /\ UNCHANGED <<m_Latitude, m_Longitude, frame>>

CallSphericalDistanceToPoint ==
    /\ \E c \in DistanceCalls :
          /\ c[1] = <<m_Latitude, m_Longitude>>
          /\ args' = c[2]
          /\ ret' = SphericalDistanceToPoint(m_Latitude, m_Longitude,
                                             c[2][1], c[2][2])
    /\ op' = "SphericalDistance"
    /\ UNCHANGED <<m_Latitude, m_Longitude, frame>>

NextGreatCircle == CallSphericalProjection \/ CallSphericalDistanceToPoint

SpecGreatCircle == InitGreatCircle /\ [][NextGreatCircle]_vars

---------------------------------------------------------------------------
(* Properties of GetZone and GetZoneLetter, checked under Spec.             *)

\* The zone floor((lon+180)/6)+1 of the plain 6-degree rule.
SixDegreeRule(lon) == (lon + Deg(180)) \div Deg(6) + 1

LatInRange == m_Latitude >= Deg(-90) /\ m_Latitude <= Deg(90)
LonNormalized == m_Longitude >= Deg(-180) /\ m_Longitude < Deg(180)

\* C2: the zone number computed for a point with latitude in [-90,90] is in
\* 1..60 for every longitude, normalized or not.
C2_ZoneIn1To60 ==
    (op = "GetZone" /\ LatInRange) => ret \in 1..60

\* C3: for longitude in [-180,180) outside the Norway and Svalbard carve-outs
\* the zone is floor((lon+180)/6)+1, a multiple of 6 belongs to the zone it
\* is the western edge of, and the central meridian cm of the zone satisfies
\* -3 <= lon - cm < 3.
C3_PlainZoneAndMeridian ==
    (/\ op = "GetZone"
     /\ LonNormalized
     /\ ~(/\ m_Latitude > Deg(56) /\ m_Latitude <= Deg(64)
          /\ m_Longitude > Deg(3) /\ m_Longitude <= Deg(12))
     /\ ~(/\ m_Latitude > Deg(72) /\ m_Latitude < Deg(84)
          /\ m_Longitude >= Deg(0) /\ m_Longitude < Deg(42)))
    => /\ ret = SixDegreeRule(m_Longitude)
       /\ (m_Longitude % Deg(6) = 0 =>
              Deg((ret - 1) * 6 - 180) = m_Longitude)
       /\ m_Longitude - CentralLongitudeDeg(ret) >= Deg(-3)
       /\ m_Longitude - CentralLongitudeDeg(ret) < Deg(3)

\* C3 witness: GetZone has run on a point at lon = 6.0 and returned 32.
C3_Witness ==
    /\ op = "GetZone" /\ m_Longitude = Deg(6) /\ m_Latitude = Deg(0)
    /\ ret = 32

InClaimedNorwayBox ==
    /\ m_Latitude > Deg(56) /\ m_Latitude <= Deg(64)
    /\ m_Longitude > Deg(3) /\ m_Longitude <= Deg(12)

\* C4 as stated: zone 32 inside the Norway box, and the plain value
\* floor((lon+180)/6)+1 for every point at latitude <= 72 outside it.
C4_Original ==
    op = "GetZone" =>
       /\ InClaimedNorwayBox => ret = 32
       /\ (m_Latitude <= Deg(72) /\ ~InClaimedNorwayBox)
             => ret = SixDegreeRule(m_Longitude)

\* C4 as amended: zone 32 for 56 < lat <= 64 and 3 < lon <= 12; at latitude
\* <= 72 outside that box the zone is floor((lon+180)/6)+1 when the longitude
\* is in [-180,180), and that value less 60 when it is in [180,540).
C4_NorwayCarveOut ==
    op = "GetZone" =>
       /\ InClaimedNorwayBox => ret = 32
       /\ (m_Latitude <= Deg(72) /\ ~InClaimedNorwayBox /\ LonNormalized)
             => ret = SixDegreeRule(m_Longitude)
       /\ (/\ m_Latitude <= Deg(72) /\ ~InClaimedNorwayBox
           /\ m_Longitude >= Deg(180) /\ m_Longitude < Deg(540))
             => ret = SixDegreeRule(m_Longitude) - 60

\* C4 witness: GetZone has returned 32 at lon = 12 (plain zone 33) on the
\* inclusive edge lat = 64.
C4_Witness ==
    /\ op = "GetZone" /\ m_Latitude = Deg(64) /\ m_Longitude = Deg(12)
    /\ ret = 32 /\ SixDegreeRule(m_Longitude) = 33

InClaimedSvalbard ==
    /\ m_Latitude > Deg(72) /\ m_Latitude < Deg(84)
    /\ m_Longitude >= Deg(0) /\ m_Longitude < Deg(42)

SvalbardBands ==
    /\ (m_Longitude >= Deg(0)  /\ m_Longitude < Deg(9))  => ret = 31
    /\ (m_Longitude >= Deg(9)  /\ m_Longitude < Deg(21)) => ret = 33
    /\ (m_Longitude >= Deg(21) /\ m_Longitude < Deg(33)) => ret = 35
    /\ (m_Longitude >= Deg(33) /\ m_Longitude < Deg(42)) => ret = 37

\* C5 as stated: the four Svalbard bands for 72 < lat < 84 and 0 <= lon < 42,
\* never zone 32, 34 or 36 in that latitude band, and the plain 6-degree zone
\* floor((lon+180)/6)+1 for every other longitude in the band.
C5_Original ==
    (op = "GetZone" /\ m_Latitude > Deg(72) /\ m_Latitude < Deg(84)) =>
       /\ InClaimedSvalbard => SvalbardBands
       /\ ret \notin {32, 34, 36}
       /\ ~InClaimedSvalbard => ret = SixDegreeRule(m_Longitude)

\* C5 as amended: the same, with the longitudes outside [0,42) restricted to
\* [-180,180); there the zone is floor((lon+180)/6)+1, and for a longitude in
\* [180,540) it is that value less 60.
C5_SvalbardCarveOut ==
    (op = "GetZone" /\ m_Latitude > Deg(72) /\ m_Latitude < Deg(84)) =>
       /\ InClaimedSvalbard => SvalbardBands
       /\ LonNormalized => ret \notin {32, 34, 36}
       /\ (~InClaimedSvalbard /\ LonNormalized)
             => ret = SixDegreeRule(m_Longitude)
       /\ (m_Longitude >= Deg(180) /\ m_Longitude < Deg(540))
             => ret = SixDegreeRule(m_Longitude) - 60

\* C5 witness: GetZone has returned 33 for a Svalbard point whose plain
\* zone is 34.
C5_Witness ==
    /\ op = "GetZone" /\ m_Latitude = Deg(78) /\ m_Longitude = Deg(20)
    /\ ret = 33 /\ SixDegreeRule(m_Longitude) = 34

\* C6: every point with latitude in (72,84) reports the letter 'X' (88),
\* whatever its longitude and whatever the band arithmetic gives.
C6_LetterXInBand ==
    (op = "GetZoneLetter" /\ m_Latitude > Deg(72) /\ m_Latitude < Deg(84))
    => ret = 88

\* C6 witness: GetZoneLetter has returned 'X' for a latitude in [80,84),
\* where floor((lat+80)/8) is 20, past the end of the table.
C6_Witness ==
    /\ op = "GetZoneLetter" /\ ret = 88
    /\ m_Latitude > Deg(80) /\ m_Latitude < Deg(84)
    /\ (m_Latitude + Deg(80)) \div Deg(8) = 20

\* C7: for latitude in [-80,72) the letter is the character at index
\* floor((lat+80)/8) of "CDEFGHJKLMNPQRSTUVWX" (-80 -> C, -72 -> D, 0 -> N,
\* 64 -> W), and for 72 <= lat <= 84 it is 'X'.
C7_LetterTable ==
    op = "GetZoneLetter" =>
       /\ (m_Latitude >= Deg(-80) /\ m_Latitude < Deg(72))
             => ret = m_strZoneLetters[(m_Latitude + Deg(80)) \div Deg(8) + 1]
       /\ (m_Latitude >= Deg(72) /\ m_Latitude <= Deg(84)) => ret = 88
       /\ m_Latitude = Deg(-80) => ret = 67
       /\ m_Latitude = Deg(-72) => ret = 68
       /\ m_Latitude = Deg(0) => ret = 78
       /\ m_Latitude = Deg(64) => ret = 87

\* C7 witness: GetZoneLetter has run on a non-integer latitude of the band
\* table and returned the letter 'D' of the band [-72,-64).
C7_Witness ==
    /\ op = "GetZoneLetter" /\ ret = 68
    /\ m_Latitude > Deg(-72) /\ m_Latitude < Deg(-71)

---------------------------------------------------------------------------
(* Properties of the UTM conversions, checked under SpecUTM.               *)

\* The zone letter of the claims: c, upper-cased, is one of the 20 letters
\* C D E F G H J K L M N P Q R S T U V W X.
ClaimedRecognized(c) ==
    LET u == IF c >= 97 /\ c <= 122 THEN c - 32 ELSE c
    IN  u \in {67, 68, 69, 70, 71, 72, 74, 75, 76, 77,
               78, 80, 81, 82, 83, 84, 85, 86, 87, 88}

\* C1: ConvertUTM reports failure exactly for the zone letters that, after
\* upper-casing, are not among the 20 recognized ones, whatever the zone
\* number, easting and northing, and on failure the latitude and longitude
\* of the point are what they were before the call.
C1_UnrecognizedLetterFails ==
    [][ op' = "ConvertUTM" =>
          /\ ret' = ClaimedRecognized(args'[2])
          /\ ~ClaimedRecognized(args'[2]) =>
                (m_Latitude' = m_Latitude /\ m_Longitude' = m_Longitude)
      ]_vars

\* C1 witness: ConvertUTM has been called with the letter 'I' and has
\* returned false.
C1_Witness ==
    /\ op = "ConvertUTM" /\ args[2] = 73 /\ ret = FALSE

\* One thousandth of a degree (about 111 m along a meridian): the accuracy
\* the fixed-point series keep.  It is far coarser than the 1 m of the
\* round-trip property, so a round trip off by more than this is off by
\* more than 1 m.
RoundTripTol == Micro \div 1000

\* C8: ConvertUTM applied to the zone, letter, easting and northing that
\* ToUTM produced for a point gives the point back (here: within
\* RoundTripTol, which 1 m implies), in the northern and in the southern
\* hemisphere.
C8_RoundTrip ==
    [][ (op = "ToUTM" /\ op' = "ConvertUTM" /\ args' = ret) =>
          /\ ret' = TRUE
          /\ Abs(m_Latitude' - m_Latitude) <= RoundTripTol
          /\ Abs(m_Longitude' - m_Longitude) <= RoundTripTol
      ]_vars

\* The same for the points of the northern hemisphere only (not a claim of
\* its own: it shows that the series of the two directions agree).
NorthernRoundTrip ==
    [][ (op = "ToUTM" /\ op' = "ConvertUTM" /\ args' = ret
           /\ m_Latitude >= 0) =>
          /\ ret' = TRUE
          /\ Abs(m_Latitude' - m_Latitude) <= RoundTripTol
          /\ Abs(m_Longitude' - m_Longitude) <= RoundTripTol
      ]_vars

---------------------------------------------------------------------------
(* Properties of the loop of FromCartesian, checked under SpecIter.         *)

\* C9: every iterative solver is bounded, so every call eventually returns:
\* a call of FromCartesian that is in its loop leaves it and returns.
C9_EveryCallReturns == (frame.pc = "loop") ~> (frame.pc = "done")

\* The last pass left the iterate where it was, to within EPSILON: two
\* finite values at most EPSILON apart, or the same infinity twice (a point
\* of the polar axis, whose latitude of 90 degrees is exact).
StepWithinEpsilon(dLast, dTmp) ==
    \/ IsFinite(dLast) /\ IsFinite(dTmp) /\ Abs(dLast.v - dTmp.v) <= EPSILON
    \/ dLast.cls = "inf" /\ dTmp.cls = "inf" /\ dLast.v = dTmp.v

\* C10: a result is returned only when the last pass changed the iterate
\* by at most EPSILON, and it is never an undefined value; a call that has
\* made as many passes as the cap allows, the last of them still changing
\* the iterate by more than EPSILON, has ended in a NonConvergence failure.
C10_NonConvergenceReported ==
    /\ frame.pc = "done" =>
          /\ StepWithinEpsilon(frame.dLast, frame.dTmp)
          /\ ~IsNaN(m_Latitude)
    /\ (/\ frame.iterations >= FromCartesianCap
        /\ StepExceedsEpsilon(frame.dLast, frame.dTmp)) =>
          frame.pc = "NonConvergence"

---------------------------------------------------------------------------
(* Properties of VincentyDistance and VincentyProjection, checked under    *)
(* SpecVincenty.                                                           *)

\* C11: VincentyDistance between two identical points returns the distance
\* 0 and the azimuths 0 and 0, and returns them without a pass of the
\* lambda iteration.
C11_IdenticalPoints ==
    (op = "VincentyDistance" /\ args = <<m_Latitude, m_Longitude>>) =>
       /\ frame.pc = "done"
       /\ frame.iterations = 0
       /\ ret = <<0, 0, 0>>

\* C11 witness: VincentyDistance has been called from a point off the
\* equator with that very point and has returned.
C11_Witness ==
    /\ op = "VincentyDistance" /\ frame.pc = "done"
    /\ m_Latitude = Deg(-30) /\ args = <<Deg(-30), Deg(170)>>
    /\ ret[1] = 0

\* C12: the forward and the reverse azimuth that VincentyDistance returns
\* are both in [0,360).
C12_AzimuthsIn0To360 ==
    (op = "VincentyDistance" /\ frame.pc = "done") =>
       /\ ret[2] >= Deg(0) /\ ret[2] < Deg(360)
       /\ ret[3] >= Deg(0) /\ ret[3] < Deg(360)

\* C12 witness: VincentyDistance has returned for a point to the west, where
\* atan2 gives a negative alpha12 and a negative alpha21, the forward azimuth
\* being beyond 270 and the reverse azimuth below 180.
C12_Witness ==
    /\ op = "VincentyDistance" /\ frame.pc = "done"
    /\ VincentyDistance_alpha12(frame) < 0
    /\ VincentyDistance_alpha21(frame) < 0
    /\ ret[2] > Deg(270) /\ ret[3] < Deg(180)

\* C13: the longitude of every point that an operation produces is in
\* [-180,180); here for the point that VincentyProjection returns.
C13_ProducedLongitudeNormalized ==
    (op = "VincentyProjection" /\ frame.pc = "done") =>
       (ret[2] >= Deg(-180) /\ ret[2] < Deg(180))

\* Five kilometres: the accuracy that the fixed-point asin() keeps for a
\* distance of 10,000 km.  It is far coarser than a millimetre, so that a
\* round trip off by more than this is off by more than a millimetre.
VincentyTol == 5 * 1000

\* C18: VincentyDistance from a point to the point that VincentyProjection
\* gave for the azimuth az and the distance d returns d (here: within
\* VincentyTol, which a millimetre implies), for d up to 10,000 km.
C18_DirectThenInverse ==
    (op = "VincentyDistance" /\ frame.pc = "done" /\ frame.caller # <<>>) =>
       Abs(ret[1] - frame.caller[2]) <= VincentyTol

\* A quarter of the equator: the distance between two points of the equator
\* that are 90 degrees apart.
EquatorQuarter == MulDiv(m_a, HalfPi, Micro)

\* C19: sigma is recovered from its sine and its cosine together and ranges
\* over [0,180]: for two points more than 90 degrees apart (cos(sigma) < 0)
\* the sigma that gives the distance is more than 90 degrees, and two points
\* of the equator 100 degrees apart are farther apart than any two that are
\* less than 90 degrees apart.
C19_SigmaBeyondQuarter ==
    (op = "VincentyDistance" /\ frame.pc = "done" /\ frame.iterations > 0) =>
       /\ frame.cs < 0 => VincentyDistance_sigma(frame.ss) > HalfPi
       /\ (m_Latitude = Deg(0) /\ args = <<Deg(0), m_Longitude + Deg(100)>>)
             => ret[1] > EquatorQuarter

---------------------------------------------------------------------------
(* Further properties of the UTM conversions.                              *)

\* C14: no operation changes a point in place: across every call the
\* latitude and the longitude of the point it is called on stay what they
\* were (checked under SpecUTM, on ToUTM and ConvertUTM).
C14_NoMutationInPlace ==
    [][ m_Latitude' = m_Latitude /\ m_Longitude' = m_Longitude ]_vars

\* C20: for every latitude in [-80,84] the zone letter precedes 'N' (78)
\* exactly when the latitude is negative, so that the test of ConvertUTM
\* for taking the southern false northing off succeeds exactly for the
\* points for which ToUTM put it on (checked under Spec).
C20_SouthLetterIffNegative ==
    (/\ op = "GetZoneLetter"
     /\ m_Latitude >= Deg(-80) /\ m_Latitude <= Deg(84)) =>
       /\ (ret < 78) <=> (m_Latitude < 0)
       /\ IsSouthLetter(ret) <=> (m_Latitude < 0)

\* C20 witness: GetZoneLetter has returned 'M' for the latitude next below
\* 0, and the test of ConvertUTM takes 'M' as southern.
C20_Witness ==
    /\ op = "GetZoneLetter" /\ ret = 77
    /\ m_Latitude = -GridStep
    /\ IsSouthLetter(ret)

---------------------------------------------------------------------------
(* Properties of IsBetween and SphericalDistance(P1, P2), checked under    *)
(* SpecSpherical.                                                          *)

\* C16: when P1 and P2 are the same point, IsBetween and
\* SphericalDistance(P1, P2) report the error DegenerateGeometry for every
\* point; neither returns a bool or a double.
C16_DegenerateReported ==
    (op \in {"IsBetween", "SphericalDistance"} /\ args[1] = args[2]) =>
       ret.cls = "error"

\* C17: the sign of SphericalDistance(P1, P2) follows IsBetween alone: for
\* P1 # P2 the distance is a number, >= 0 when IsBetween holds and <= 0 when
\* it does not; IsBetween holds for P = P1 and not for P = P2; and the
\* mirror image of P in the equator is at the same distance from a line
\* of the equator.
C17_SignFollowsIsBetween ==
    /\ (op = "SphericalDistance" /\ args[1] # args[2]) =>
          /\ IsFinite(ret)
          /\ IF IsBetween(m_Latitude, m_Longitude, args[1], args[2])
             THEN ret.v >= 0 ELSE ret.v <= 0
          /\ OnEquator(args) =>
                ret = SphericalDistance(-m_Latitude, m_Longitude,
                                        args[1], args[2])
    /\ (op = "IsBetween" /\ args[1] # args[2]) =>
          /\ <<m_Latitude, m_Longitude>> = args[1] => ret.v = TRUE
          /\ <<m_Latitude, m_Longitude>> = args[2] => ret.v = FALSE

---------------------------------------------------------------------------
(* Properties of concurrent calls, checked under SpecConcurrent.           *)

\* The points that P holds before and after whole calls of ConvertUTM.
WholePoints ==
    {SharedPoint}
    \cup { ConvertUTM_LatLon(a[1], a[2], a[3], a[4]) : a \in SharedConversions }

\* C15: calls run concurrently without coordination: a call of
\* SphericalDistance(P) never reads a latitude of P that comes from one
\* conversion with a longitude that comes from another, and returns what it
\* returns when run alone on a point that P has held.
C15_NoTornRead ==
    (frame.reader = "done") =>
       /\ <<frame.PLatitude, frame.PLongitude>> \in WholePoints
       /\ \E W \in WholePoints :
             ret = SphericalDistanceToPoint(ObserverPoint[1],
                                            ObserverPoint[2], W[1], W[2])

---------------------------------------------------------------------------
(* Properties of SphericalProjection and SphericalDistance(P), checked     *)
(* under SpecGreatCircle, and of GetZoneLetter beyond the UTM range.       *)

\* A ten-thousandth of a degree: the accuracy of asin(sin(x)) in the
\* fixed-point arithmetic.
ProjectionTol == MicroDeg \div 10000

\* A longitude brought into [-180,180).
NormalizedLongitude(lon) == ((lon + Deg(180)) % Deg(360)) - Deg(180)

\* C21: SphericalProjection is relative to the longitude of the origin: for
\* the distance 0 it returns the latitude and the (normalized) longitude of
\* the origin, and from the origin moved by 30 degrees of longitude it
\* returns the same latitude and a longitude moved by 30 degrees modulo 360.
C21_ProjectionRelativeToOrigin ==
    (op = "SphericalProjection") =>
       /\ args[2] = 0 =>
             /\ Abs(ret[1] - m_Latitude) <= ProjectionTol
             /\ Abs(ret[2] - NormalizedLongitude(m_Longitude)) <= ProjectionTol
       /\ \E moved \in {SphericalProjection(m_Latitude, m_Longitude + Deg(30),
                                            args[1], args[2])} :
             /\ moved[1] = ret[1]
             /\ (moved[2] - ret[2] - Deg(30)) % Deg(360) = 0

\* C22: SphericalDistance(P) is 0 for a point P of the same latitude whose
\* longitude differs from that of the receiver by a multiple of 360
\* degrees, the small-distance branch included.
C22_DistanceIgnoresWholeTurns ==
    (/\ op = "SphericalDistance"
     /\ args[1] = m_Latitude
     /\ (args[2] - m_Longitude) % Deg(360) = 0) => ret = 0

\* C23: GetZoneLetter returns one of the 20 letters of the table exactly
\* for the latitudes in [-80,84] and 'Z' (90) for every latitude below -80
\* and above 84, and ConvertUTM does not recognize 'Z'.
C23_LetterIffInRange ==
    (op = "GetZoneLetter") =>
       /\ ZoneLetterFound_CaseSensitive(ret)
             <=> (m_Latitude >= Deg(-80) /\ m_Latitude <= Deg(84))
       /\ (m_Latitude < Deg(-80) \/ m_Latitude > Deg(84)) => ret = 90
       /\ ~ZoneLetterFound(90)

====
